---- MODULE Spec2Model ----
(***************************************************************************)
(* TaxMantri: the dual-regime tax computation engine (tax_engine.py,       *)
(* optimizer.py) and the hybrid retrieval fusion (retriever.py).           *)
(*                                                                         *)
(* Money.  The engine computes on Python floats.  Here every rupee amount  *)
(* of a profile and of a result is an integer number of paise (1/100       *)
(* rupee), and the slab tax, which multiplies an amount by a rate that is  *)
(* a multiple of 5%, is an integer number of twentieths of a paisa, so     *)
(* that all products are exact.  round(x, 2) is Python's: to the nearest   *)
(* paisa, a half going to the even neighbour.  Binary representation       *)
(* error of floats is not modelled.                                        *)
(***************************************************************************)
EXTENDS Integers, Sequences, FiniteSets, TLC

VARIABLES
    profile,        \* the UserFinancialProfile the functions are called on
    call,           \* the engine function called last ("none" before any call)
    ret,            \* the value that call returned
    dense_results,  \* hybrid_search: chunk indexes returned by dense_search
    sparse_results, \* hybrid_search: chunk indexes returned by sparse_search
    top_k,          \* hybrid_search: its top_k argument
    chunks,         \* TaxRetriever.chunks: chunk index -> chunk_id (<<>>: not loaded)
    rrf_scores,     \* hybrid_search: chunk_id -> fused score, a fraction <<num, den>>
    answer,         \* validate_citations: the LLM's answer text, as segments
    kb_chunks,      \* validate_citations: the texts of its chunks argument
    retriever,      \* graph._retriever: "TaxRetriever", or "None" when the index did not load
    mistral_client, \* graph._mistral_client: "Mistral" or "None"
    state,          \* the TaxMantriState of the pipeline run, a dict
    node,           \* the node of the graph that runs next ("idle": no run)
    executed,       \* the nodes that ran in this run, with the fate of their LLM call
    sem_value,      \* rag_semaphore._value: the free slots
    sem_waiters,    \* rag_semaphore._waiters: the tasks suspended in acquire(), FIFO
    tasks,          \* request -> its kind and its position around the LLM call
    blocked,        \* the request whose llm_answer_tool blocks the main thread, 0: none
    profiles_table, \* table profiles: profile_id (primary key) -> profile_data
    tax_results_table, \* table tax_results: its rows, each with profile_id and result_data
    db_sessions,    \* database session -> its position inside save_result
    last_saved,     \* history: profile_id -> the result the last successful save stored
    faq_cache,      \* Redis faq:* keys: normalised question -> cached response
    chat_history    \* table chat_history: its rows, in order of insertion

vars == <<profile, call, ret, chunks, dense_results, sparse_results, top_k, rrf_scores,
          answer, kb_chunks, retriever, mistral_client, state, node, executed,
          sem_value, sem_waiters, tasks, blocked,
          profiles_table, tax_results_table, db_sessions, last_saved,
          faq_cache, chat_history>>

taxVars == <<profile, call, ret>>
searchVars == <<chunks, dense_results, sparse_results, top_k, rrf_scores>>
citeVars == <<answer, kb_chunks>>
pipeVars == <<retriever, mistral_client, state, node, executed>>
semVars == <<sem_value, sem_waiters, tasks, blocked>>
storeVars == <<profiles_table, tax_results_table, db_sessions, last_saved>>
queryVars == <<faq_cache, chat_history>>

----------------------------------------------------------------------------
(* Amounts *)

\* n rupees, in paise
Rs(n) == n * 100

\* an Optional[float] field left null by the client
None == 0 - 1

\* Python's `x or 0.0` on an Optional[float] field
OrZero(x) == IF x = None THEN 0 ELSE x

Min(a, b) == IF a <= b THEN a ELSE b
Max(a, b) == IF a >= b THEN a ELSE b
Abs(a) == IF a >= 0 THEN a ELSE 0 - a

\* n/d rounded to the nearest integer, a half to the even neighbour (n >= 0, d > 0)
RoundHalfEven(n, d) ==
    LET q == n \div d
        r == n % d
    IN  IF 2 * r < d THEN q
        ELSE IF 2 * r > d THEN q + 1
        ELSE IF q % 2 = 0 THEN q ELSE q + 1

\* round(x, 2) of a tax amount x given in twentieths of a paisa; the result in paise
Round2(fine) == RoundHalfEven(fine, 20)

\* an amount in paise, in twentieths of a paisa
Fine(paise) == paise * 20

----------------------------------------------------------------------------
(* tax_engine.py: constants *)

OLD_STD_DEDUCTION == Rs(50000)
NEW_STD_DEDUCTION == Rs(75000)
CAP_80C == Rs(150000)
CAP_80D_SELF_UNDER60 == Rs(25000)
CAP_80D_SELF_SENIOR == Rs(50000)
CAP_80D_PARENTS_NON_SENIOR == Rs(25000)
CAP_80D_PARENTS_SENIOR == Rs(50000)
CAP_80CCD1B == Rs(50000)
CAP_80TTA == Rs(10000)
CAP_80TTB == Rs(50000)
CAP_24B == Rs(200000)

\* CAP_80CCD2_PCT = 0.10, in tenths
CAP_80CCD2_PCT == 1

\* CESS_RATE = 0.04 = 1/25, as its inverse
CESS_RATE_INV == 25

OLD_87A_MAX_REBATE == Rs(12500)
OLD_87A_TAXABLE_CEILING == Rs(500000)
NEW_87A_MAX_REBATE == Rs(60000)
NEW_87A_TAXABLE_CEILING == Rs(1200000)

\* float("inf"): above every amount of the model
Inf == 2000000000

\* OLD_REGIME_SLABS with the 20% bracket taxed at 30%
OLD_REGIME_SLABS_TopRateEarly ==
    << <<Rs(250000), 0>>, <<Rs(500000), 1>>, <<Rs(1000000), 6>>, <<Inf, 6>> >>

\* slab tables: <<ceiling in paise, rate in units of 5%>>
OLD_REGIME_SLABS ==
    << <<Rs(250000), 0>>, <<Rs(500000), 1>>, <<Rs(1000000), 4>>, <<Inf, 6>> >>

NEW_REGIME_SLABS ==
    << <<Rs(400000), 0>>, <<Rs(800000), 1>>, <<Rs(1200000), 2>>, <<Rs(1600000), 3>>,
       <<Rs(2000000), 4>>, <<Rs(2400000), 5>>, <<Inf, 6>> >>

----------------------------------------------------------------------------
(* tax_engine.py: helpers *)

\* tenths/10 of an amount, exact for an amount that is a multiple of 10 paise
\* (every basic_salary of the model is)
TenthsOf(amount, tenths) == (amount \div 10) * tenths

\* _calculate_slab_tax taxing the whole income at the rate of the bracket it falls in
_calculate_slab_tax_FlatRate(taxable_income, slabs) ==
    LET i == CHOOSE j \in 1..Len(slabs) :
                 /\ taxable_income <= slabs[j][1]
                 /\ \A k \in 1..(j - 1) : taxable_income > slabs[k][1]
    IN  taxable_income * slabs[i][2]

\* the loop of _calculate_slab_tax from bracket i on; tax in twentieths of a paisa
RECURSIVE SlabLoop(_, _, _, _, _)
SlabLoop(taxable_income, slabs, i, prev_ceiling, tax) ==
    IF i > Len(slabs) THEN tax
    ELSE IF taxable_income <= prev_ceiling THEN tax
    ELSE LET ceiling == slabs[i][1]
             rate == slabs[i][2]
             slab_income == Min(taxable_income, ceiling) - prev_ceiling
         IN  SlabLoop(taxable_income, slabs, i + 1, ceiling, tax + slab_income * rate)

_calculate_slab_tax(taxable_income, slabs) == SlabLoop(taxable_income, slabs, 1, 0, 0)

\* calculate_hra_exemption with component 3 not clipped at zero
calculate_hra_exemption_NoClip(p) ==
    LET hra == OrZero(p.hra_received)
        rent == OrZero(p.monthly_rent_paid)
        metro_pct == IF p.city_type = "metro" THEN 5 ELSE 4
        component_2 == TenthsOf(p.basic_salary, metro_pct)
        component_3 == rent * 12 - TenthsOf(p.basic_salary, 1)
    IN  IF hra = 0 \/ rent = 0 THEN 0
        ELSE Min(hra, Min(component_2, component_3))

calculate_hra_exemption(p) ==
    LET hra == OrZero(p.hra_received)
        rent == OrZero(p.monthly_rent_paid)
        metro_pct == IF p.city_type = "metro" THEN 5 ELSE 4
        annual_rent == rent * 12
        component_1 == hra
        component_2 == TenthsOf(p.basic_salary, metro_pct)
        component_3 == Max(0, annual_rent - TenthsOf(p.basic_salary, 1))
    IN  IF hra = 0 \/ rent = 0 THEN 0
        ELSE Min(component_1, Min(component_2, component_3))

\* _calculate_80d with one ceiling on self and parents together
_calculate_80d_CombinedCap(p) ==
    LET self_cap == IF p.age_bracket \in {"60_79", "80plus"}
                    THEN CAP_80D_SELF_SENIOR ELSE CAP_80D_SELF_UNDER60
    IN  Min(OrZero(p.health_insurance_self) + OrZero(p.health_insurance_parents), self_cap)

_calculate_80d(p) ==
    LET self_cap == IF p.age_bracket \in {"60_79", "80plus"}
                    THEN CAP_80D_SELF_SENIOR ELSE CAP_80D_SELF_UNDER60
        parent_cap == IF p.parent_senior_citizen
                      THEN CAP_80D_PARENTS_SENIOR ELSE CAP_80D_PARENTS_NON_SENIOR
        self_ded == Min(OrZero(p.health_insurance_self), self_cap)
        parent_ded == Min(OrZero(p.health_insurance_parents), parent_cap)
    IN  self_ded + parent_ded

_calculate_80tta_ttb_old(p) ==
    LET amount == OrZero(p.savings_interest_80tta)
    IN  IF p.age_bracket = "under60" THEN Min(amount, CAP_80TTA)
        ELSE Min(amount, CAP_80TTB)

\* _apply_87a_old with the ceiling itself excluded from the rebate
_apply_87a_old_CeilingExcluded(taxable_income, tax) ==
    IF taxable_income < OLD_87A_TAXABLE_CEILING
    THEN Max(0, tax - Min(tax, Fine(OLD_87A_MAX_REBATE)))
    ELSE tax

\* taxable_income in paise; tax and the result in twentieths of a paisa
_apply_87a_old(taxable_income, tax) ==
    IF taxable_income <= OLD_87A_TAXABLE_CEILING
    THEN Max(0, tax - Min(tax, Fine(OLD_87A_MAX_REBATE)))
    ELSE tax

_apply_87a_new(taxable_income, tax) ==
    IF taxable_income <= NEW_87A_TAXABLE_CEILING
    THEN Max(0, tax - Min(tax, Fine(NEW_87A_MAX_REBATE)))
    ELSE tax

\* Step 1 of both calculators
gross_income_of(p) ==
    p.basic_salary + OrZero(p.hra_received) + OrZero(p.lta)
    + OrZero(p.special_allowance) + OrZero(p.other_allowances) + OrZero(p.other_income)

\* DeductionBreakdown(): every field defaults to 0
DeductionBreakdown ==
    [standard_deduction |-> 0, hra_exemption |-> 0, section_80c |-> 0,
     section_80d |-> 0, section_80ccd1b |-> 0, section_80ccd2 |-> 0,
     section_80tta_ttb |-> 0, section_24b |-> 0, professional_tax |-> 0]

\* Steps 3-7 of both calculators and the RegimeResult they build
\* (tax_after_87a in twentieths of a paisa, every field of the result in paise)
RegimeResult(gross_income, total_deductions, taxable_income, tax_after_87a, bd) ==
    LET cess == RoundHalfEven(tax_after_87a, 20 * CESS_RATE_INV)
        total_tax == Round2(tax_after_87a + Fine(cess))
    IN  [gross_income |-> gross_income,
         total_deductions |-> total_deductions,
         taxable_income |-> taxable_income,
         tax_before_cess |-> Round2(tax_after_87a),
         cess |-> cess,
         total_tax |-> total_tax,
         deduction_breakdown |-> bd]

\* taxable_income_of without the floor at zero
taxable_income_of_NoFloor(gross_income, total_deductions) == gross_income - total_deductions

\* Step 3 of both calculators
taxable_income_of(gross_income, total_deductions) == Max(0, gross_income - total_deductions)

calculate_old_regime(p) ==
    LET gross_income == gross_income_of(p)
        ded_std == OLD_STD_DEDUCTION
        ded_hra == calculate_hra_exemption(p)
        ded_80c == Min(OrZero(p.investments_80c), CAP_80C)
        ded_80d == _calculate_80d(p)
        ded_80ccd1b == Min(OrZero(p.employee_nps_80ccd1b), CAP_80CCD1B)
        ded_80ccd2 == 0
        ded_80tta == _calculate_80tta_ttb_old(p)
        ded_24b == Min(OrZero(p.home_loan_interest), CAP_24B)
        ded_pt == OrZero(p.professional_tax)
        total_deductions == ded_std + ded_hra + ded_80c + ded_80d + ded_80ccd1b
                            + ded_80ccd2 + ded_80tta + ded_24b + ded_pt
        taxable_income == taxable_income_of(gross_income, total_deductions)
        slab_tax == _calculate_slab_tax(taxable_income, OLD_REGIME_SLABS)
        tax_after_87a == _apply_87a_old(taxable_income, slab_tax)
    IN  RegimeResult(gross_income, total_deductions, taxable_income, tax_after_87a,
            [standard_deduction |-> ded_std, hra_exemption |-> ded_hra,
             section_80c |-> ded_80c, section_80d |-> ded_80d,
             section_80ccd1b |-> ded_80ccd1b, section_80ccd2 |-> ded_80ccd2,
             section_80tta_ttb |-> ded_80tta, section_24b |-> ded_24b,
             professional_tax |-> ded_pt])

\* calculate_new_regime that also allows Section 80C
calculate_new_regime_With80C(p) ==
    LET gross_income == gross_income_of(p)
        ded_std == NEW_STD_DEDUCTION
        ded_80c == Min(OrZero(p.investments_80c), CAP_80C)
        ded_80ccd2 == Min(OrZero(p.employer_nps_80ccd2),
                          TenthsOf(p.basic_salary, CAP_80CCD2_PCT))
        total_deductions == ded_std + ded_80ccd2 + ded_80c
        taxable_income == taxable_income_of(gross_income, total_deductions)
        slab_tax == _calculate_slab_tax(taxable_income, NEW_REGIME_SLABS)
        tax_after_87a == _apply_87a_new(taxable_income, slab_tax)
    IN  RegimeResult(gross_income, total_deductions, taxable_income, tax_after_87a,
            [DeductionBreakdown EXCEPT !.standard_deduction = ded_std,
                                       !.section_80ccd2 = ded_80ccd2,
                                       !.section_80c = ded_80c])

calculate_new_regime(p) ==
    LET gross_income == gross_income_of(p)
        ded_std == NEW_STD_DEDUCTION
        employer_nps_cap == TenthsOf(p.basic_salary, CAP_80CCD2_PCT)
        ded_80ccd2 == Min(OrZero(p.employer_nps_80ccd2), employer_nps_cap)
        total_deductions == ded_std + ded_80ccd2
        taxable_income == taxable_income_of(gross_income, total_deductions)
        slab_tax == _calculate_slab_tax(taxable_income, NEW_REGIME_SLABS)
        tax_after_87a == _apply_87a_new(taxable_income, slab_tax)
    IN  RegimeResult(gross_income, total_deductions, taxable_income, tax_after_87a,
            [DeductionBreakdown EXCEPT !.standard_deduction = ded_std,
                                       !.section_80ccd2 = ded_80ccd2])

----------------------------------------------------------------------------
(* optimizer.py *)

\* f"{x:,.0f}" of an amount in paise: the nearest whole rupee, a half to the even one
Rupees0f(paise) == RoundHalfEven(paise, 100)

_SUGGESTION_MIN_SAVING == Rs(1000)
_MAX_SUGGESTIONS == 3

\* An effective rate, slab rate x 1.04, is a whole number of 250ths: 5% x 1.04 = 13/250.
\* A saving, headroom x effective rate, is then a whole number of 250ths of a paisa.
RATE_UNITS == 250

\* _new_marginal_rate with an income on a ceiling put in the bracket above it
_new_marginal_rate_CeilingAbove(taxable_income) ==
    IF taxable_income >= Rs(2400000) THEN 78
    ELSE IF taxable_income >= Rs(2000000) THEN 65
    ELSE IF taxable_income >= Rs(1600000) THEN 52
    ELSE IF taxable_income >= Rs(1200000) THEN 39
    ELSE IF taxable_income >= Rs(800000) THEN 26
    ELSE IF taxable_income >= Rs(400000) THEN 13
    ELSE 0

_old_marginal_rate(taxable_income) ==
    IF taxable_income > Rs(1000000) THEN 78
    ELSE IF taxable_income > Rs(500000) THEN 52
    ELSE IF taxable_income > Rs(250000) THEN 13
    ELSE 0

_new_marginal_rate(taxable_income) ==
    IF taxable_income > Rs(2400000) THEN 78
    ELSE IF taxable_income > Rs(2000000) THEN 65
    ELSE IF taxable_income > Rs(1600000) THEN 52
    ELSE IF taxable_income > Rs(1200000) THEN 39
    ELSE IF taxable_income > Rs(800000) THEN 26
    ELSE IF taxable_income > Rs(400000) THEN 13
    ELSE 0

\* Candidate without the minimum saving
Candidate_NoMinimum(section, headroom, effective_rate) ==
    LET saving == headroom * effective_rate
    IN  IF headroom > 0
        THEN << [section |-> section, headroom |-> Rupees0f(headroom),
                 saving |-> RoundHalfEven(saving, 100 * RATE_UNITS),
                 key |-> saving] >>
        ELSE <<>>

\* One candidate of a suggestion list, if its headroom and saving qualify.  The
\* text is kept as its variable parts: the section, and the headroom and the
\* saving as printed ({headroom:,.0f} and {round(saving):,.0f}); the exact saving
\* is the sort key.
Candidate(section, headroom, effective_rate) ==
    LET saving == headroom * effective_rate
    IN  IF headroom > 0 /\ saving >= _SUGGESTION_MIN_SAVING * RATE_UNITS
        THEN << [section |-> section, headroom |-> Rupees0f(headroom),
                 saving |-> RoundHalfEven(saving, 100 * RATE_UNITS),
                 key |-> saving] >>
        ELSE <<>>

\* candidates.sort(key=lambda x: x[0], reverse=True): by saving descending, equal
\* savings keeping their order (the sort is stable)
RECURSIVE SortBySaving(_)
SortBySaving(candidates) ==
    IF candidates = <<>> THEN <<>>
    ELSE LET n == Len(candidates)
             last == candidates[n]
             placed == SortBySaving(SubSeq(candidates, 1, n - 1))
             ahead == Cardinality({i \in 1..Len(placed) : placed[i].key >= last.key})
         IN  SubSeq(placed, 1, ahead) \o <<last>> \o SubSeq(placed, ahead + 1, Len(placed))

\* [text for _, text in candidates]
Texts(candidates) ==
    [i \in 1..Len(candidates) |->
        [section |-> candidates[i].section, headroom |-> candidates[i].headroom,
         saving |-> candidates[i].saving]]

generate_old_suggestions(p, old_result) ==
    LET effective_rate == _old_marginal_rate(old_result.taxable_income)
        bd == old_result.deduction_breakdown
        self_cap == IF p.age_bracket \in {"60_79", "80plus"}
                    THEN CAP_80D_SELF_SENIOR ELSE CAP_80D_SELF_UNDER60
        parent_cap == IF p.parent_senior_citizen
                      THEN CAP_80D_PARENTS_SENIOR ELSE CAP_80D_PARENTS_NON_SENIOR
        candidates ==
            Candidate("80C", CAP_80C - bd.section_80c, effective_rate)
            \o Candidate("80D self",
                         self_cap - Min(OrZero(p.health_insurance_self), self_cap),
                         effective_rate)
            \o Candidate("80D parents",
                         parent_cap - Min(OrZero(p.health_insurance_parents), parent_cap),
                         effective_rate)
            \o Candidate("80CCD(1B)", CAP_80CCD1B - bd.section_80ccd1b, effective_rate)
            \o Candidate("24(b)", CAP_24B - bd.section_24b, effective_rate)
        sorted == SortBySaving(candidates)
    IN  IF effective_rate = 0 THEN <<>>
        ELSE Texts(SubSeq(sorted, 1, Min(_MAX_SUGGESTIONS, Len(sorted))))

generate_new_suggestions(p, new_result) ==
    LET effective_rate == _new_marginal_rate(new_result.taxable_income)
        nps_cap == TenthsOf(p.basic_salary, CAP_80CCD2_PCT)
        used_nps == new_result.deduction_breakdown.section_80ccd2
        headroom == nps_cap - used_nps
    IN  IF effective_rate = 0 THEN <<>>
        ELSE Texts(Candidate("80CCD(2)", headroom, effective_rate))

----------------------------------------------------------------------------
(* tax_engine.py: compare_regimes *)

\* determine_winner with the tie going to the old regime
determine_winner_TieToOld(old, new) ==
    IF old.total_tax <= new.total_tax THEN <<"old", new.total_tax - old.total_tax>>
    ELSE <<"new", old.total_tax - new.total_tax>>

\* Step 2 of compare_regimes: <<recommended, savings>>
determine_winner(old, new) ==
    IF old.total_tax < new.total_tax THEN <<"old", new.total_tax - old.total_tax>>
    ELSE IF new.total_tax < old.total_tax THEN <<"new", old.total_tax - new.total_tax>>
    ELSE <<"new", 0>>

\* Step 3 of compare_regimes.  The rationale string is kept as its variable parts:
\* which of the three texts it is and the amounts printed in it, each as printed.
build_rationale(old, new, recommended, savings) ==
    IF savings = 0
    THEN [kind |-> "tie", tax |-> Rupees0f(old.total_tax)]
    ELSE IF recommended = "old"
    THEN LET bd == old.deduction_breakdown
             d1 == IF bd.hra_exemption > 0
                   THEN << <<"HRA exemption", Rupees0f(bd.hra_exemption)>> >> ELSE <<>>
             d2 == IF bd.section_80c > 0
                   THEN << <<"80C", Rupees0f(bd.section_80c)>> >> ELSE <<>>
             d3 == IF bd.section_80d > 0
                   THEN << <<"80D", Rupees0f(bd.section_80d)>> >> ELSE <<>>
             d4 == IF bd.section_24b > 0
                   THEN << <<"Section 24(b)", Rupees0f(bd.section_24b)>> >> ELSE <<>>
             key_deds == d1 \o d2 \o d3 \o d4
             top_deds == IF key_deds # <<>>
                         THEN SubSeq(key_deds, 1, Min(3, Len(key_deds)))
                         ELSE << <<"available deductions", 0>> >>
         IN  [kind |-> "old_wins", savings |-> Rupees0f(savings),
              old_tax |-> Rupees0f(old.total_tax), new_tax |-> Rupees0f(new.total_tax),
              top_deds |-> top_deds]
    ELSE [kind |-> "new_wins", savings |-> Rupees0f(savings),
          new_tax |-> Rupees0f(new.total_tax), old_tax |-> Rupees0f(old.total_tax),
          old_total_deductions |-> Rupees0f(old.total_deductions)]

compare_regimes(p) ==
    LET old == calculate_old_regime(p)
        new == calculate_new_regime(p)
        winner == determine_winner(old, new)
        recommended == winner[1]
        savings == winner[2]
    IN  [old_regime |-> old,
         new_regime |-> new,
         recommended_regime |-> recommended,
         savings_amount |-> RoundHalfEven(savings, 1),
         rationale |-> build_rationale(old, new, recommended, savings),
         old_regime_suggestions |-> generate_old_suggestions(p, old),
         new_regime_suggestions |-> generate_new_suggestions(p, new)]

----------------------------------------------------------------------------
(* The profiles the engine is called on *)

DefaultProfile ==
    [basic_salary |-> 0, hra_received |-> 0, other_allowances |-> 0,
     professional_tax |-> 0, lta |-> 0, special_allowance |-> 0,
     monthly_rent_paid |-> 0, city_type |-> "metro", other_income |-> 0,
     investments_80c |-> 0, health_insurance_self |-> 0,
     health_insurance_parents |-> 0, employee_nps_80ccd1b |-> 0,
     employer_nps_80ccd2 |-> 0, home_loan_interest |-> 0,
     savings_interest_80tta |-> 0, age_bracket |-> "under60",
     parent_senior_citizen |-> FALSE]

AmountFields ==
    {"hra_received", "other_allowances", "professional_tax", "lta", "special_allowance",
     "monthly_rent_paid", "other_income", "investments_80c", "health_insurance_self",
     "health_insurance_parents", "employee_nps_80ccd1b", "employer_nps_80ccd2",
     "home_loan_interest", "savings_interest_80tta"}

\* UserFinancialProfile's constraints: ge=0 on every amount (an Optional one may be
\* null), professional_tax le=2400, and validate_hra_not_exceeds_basic
ValidProfile(p) ==
    /\ p.basic_salary >= 0
    /\ \A f \in AmountFields : p[f] = None \/ p[f] >= 0
    /\ OrZero(p.professional_tax) <= Rs(2400)
    /\ OrZero(p.hra_received) <= p.basic_salary
    /\ p.city_type \in {"metro", "non_metro"}
    /\ p.age_bracket \in {"under60", "60_79", "80plus"}
    /\ p.parent_senior_citizen \in BOOLEAN

\* incomes around the slab and rebate boundaries, with sub-rupee amounts
ThresholdProfiles ==
    {[DefaultProfile EXCEPT !.basic_salary = b, !.other_income = oi,
                            !.employer_nps_80ccd2 = nps, !.special_allowance = sa,
                            !.investments_80c = c] :
        b \in {Rs(0), Rs(100000), Rs(325000), Rs(550000), Rs(550001), Rs(600000),
               Rs(800000), Rs(1050000), Rs(1275000), Rs(1275001), Rs(1500000),
               Rs(2500000)},
        oi \in {None, 0, 98, 146},
        nps \in {0, Rs(120000)},
        sa \in {0, Rs(25000)},
        c \in {0, Rs(50000)}}

\* every capped deduction below and above its cap, for every age bracket
DeductionProfiles ==
    {[DefaultProfile EXCEPT !.basic_salary = b, !.hra_received = h[1],
                            !.monthly_rent_paid = h[2], !.age_bracket = age,
                            !.parent_senior_citizen = psc, !.investments_80c = c,
                            !.health_insurance_self = hs, !.health_insurance_parents = hp,
                            !.employee_nps_80ccd1b = nps, !.home_loan_interest = hl,
                            !.savings_interest_80tta = sv, !.professional_tax = pt] :
        b \in {Rs(100000), Rs(2000000)},
        h \in {<<0, 0>>, <<Rs(800000), Rs(70000)>>},
        age \in {"under60", "60_79", "80plus"},
        psc \in BOOLEAN,
        c \in {None, Rs(50000), Rs(200000)},
        hs \in {Rs(10000), Rs(30000), Rs(60000)},
        hp \in {Rs(30000), Rs(60000)},
        nps \in {0, Rs(60000)},
        hl \in {Rs(150000), Rs(250000)},
        sv \in {Rs(5000), Rs(60000)},
        pt \in {0, Rs(2400)}}

\* HRA Rule 2A: each of the three components binding, and the zero guards
HraProfiles ==
    {[DefaultProfile EXCEPT !.basic_salary = b, !.hra_received = h,
                            !.monthly_rent_paid = r, !.city_type = ct,
                            !.lta = l, !.other_allowances = oa] :
        b \in {Rs(100000), Rs(1200000)},
        h \in {None, 0, Rs(50000), Rs(300000), Rs(700000)},
        r \in {None, 0, Rs(5000), Rs(15000), Rs(60000)},
        ct \in {"metro", "non_metro"},
        l \in {0, Rs(10000)},
        oa \in {0, Rs(5000)}}

\* the known-answer scenarios of test_tax_engine.py / demo_profiles.py
ScenarioA ==
    [DefaultProfile EXCEPT !.basic_salary = Rs(800000), !.city_type = "non_metro",
                           !.investments_80c = Rs(50000)]

ScenarioB ==
    [DefaultProfile EXCEPT !.basic_salary = Rs(2500000), !.hra_received = Rs(800000),
                           !.monthly_rent_paid = Rs(35000), !.city_type = "metro",
                           !.investments_80c = Rs(150000),
                           !.health_insurance_self = Rs(25000),
                           !.health_insurance_parents = Rs(50000),
                           !.parent_senior_citizen = TRUE,
                           !.employee_nps_80ccd1b = Rs(50000),
                           !.employer_nps_80ccd2 = Rs(120000),
                           !.home_loan_interest = Rs(200000)]

ScenarioC == DefaultProfile

Profiles ==
    {p \in ThresholdProfiles \cup DeductionProfiles \cup HraProfiles
           \cup {ScenarioA, ScenarioB, ScenarioC} : ValidProfile(p)}

----------------------------------------------------------------------------
(* retriever.py: TaxRetriever.hybrid_search *)

\* A score is an exact fraction <<numerator, denominator>>, denominator > 0.
FracAdd(a, b) == <<a[1] * b[2] + b[1] * a[2], a[2] * b[2]>>
FracLess(a, b) == a[1] * b[2] < b[1] * a[2]
FracEq(a, b) == a[1] * b[2] = b[1] * a[2]

\* the 0.0 of rrf_scores.get(cid, 0.0)
ZeroScore == <<0, 1>>

\* the 60 of the RRF formula
RRF_K == 60

\* the top_k=20 hybrid_search passes to dense_search and sparse_search
CANDIDATE_TOP_K == 20

\* sizes of the knowledge-base index: below and above CANDIDATE_TOP_K
SmallIndex == 3
LargeIndex == 22

\* the top_k values hybrid_search is called with (routes.py, matcher_agent.py)
TopKs == {1, 6, 10}

\* chunks.pkl of an index of n chunks: position i holds the chunk of index i - 1;
\* the chunk ids are distinct (build_index.py exits on a duplicate) and a chunk id
\* is written as its rank in string order, here the reverse of the index order
LoadChunks(n) == [i \in 1..n |-> n + 1 - i]

\* a ranking dense_search or sparse_search may return on an index of n chunks:
\* min(top_k, n) distinct chunk indexes, best first
Ranking(n, len, start, stride) == [i \in 1..len |-> (start + stride * (i - 1)) % n]

Rankings(n) ==
    {Ranking(n, Min(CANDIDATE_TOP_K, n), start, stride) :
        start \in 0..(n - 1), stride \in {1, n - 1}}

\* the loop body with the score overwritten instead of accumulated
rrf_accumulate_Overwrite(scores, cid, rank) ==
    IF cid \in DOMAIN scores
    THEN [scores EXCEPT ![cid] = <<1, RRF_K + rank + 1>>]
    ELSE scores @@ (cid :> <<1, RRF_K + rank + 1>>)

\* rrf_scores[cid] = rrf_scores.get(cid, 0.0) + 1.0 / (60 + rank + 1)
rrf_accumulate(scores, cid, rank) ==
    IF cid \in DOMAIN scores
    THEN [scores EXCEPT ![cid] = FracAdd(@, <<1, RRF_K + rank + 1>>)]
    ELSE scores @@ (cid :> FracAdd(ZeroScore, <<1, RRF_K + rank + 1>>))

\* for rank, (chunk_idx, _score) in enumerate(results), from the given rank on
RECURSIVE FuseLoop(_, _, _, _)
FuseLoop(scores, chs, results, rank) ==
    IF rank >= Len(results) THEN scores
    ELSE LET chunk_idx == results[rank + 1]
             cid == chs[chunk_idx + 1]
         IN  FuseLoop(rrf_accumulate(scores, cid, rank), chs, results, rank + 1)

\* SortsBefore with equal scores ordered by descending chunk_id
SortsBefore_TieDescending(scores, c, d) ==
    \/ FracLess(scores[d], scores[c])
    \/ FracEq(scores[c], scores[d]) /\ c > d

\* the key (-rrf_scores[cid], cid) of c sorts before that of d
SortsBefore(scores, c, d) ==
    \/ FracLess(scores[d], scores[c])
    \/ FracEq(scores[c], scores[d]) /\ c < d

\* sorted(ids, key=lambda cid: (-rrf_scores[cid], cid)), by insertion: each chunk
\* goes behind the ones already placed that sort before it
RECURSIVE SortedIds(_, _)
SortedIds(scores, ids) ==
    IF ids = {} THEN <<>>
    ELSE LET c == CHOOSE x \in ids : TRUE
             placed == SortedIds(scores, ids \ {c})
             ahead == Cardinality({i \in 1..Len(placed) : SortsBefore(scores, placed[i], c)})
         IN  SubSeq(placed, 1, ahead) \o <<c>> \o SubSeq(placed, ahead + 1, Len(placed))

\* sequence[:k], k >= 0
Prefix(sequence, k) == SubSeq(sequence, 1, Min(k, Len(sequence)))

\* the fused scores and the returned chunks (each named by its chunk_id)
hybrid_search(chs, dense, sparse, k) ==
    LET after_dense == FuseLoop(<<>>, chs, dense, 0)
        scores == FuseLoop(after_dense, chs, sparse, 0)
        sorted_ids == SortedIds(scores, DOMAIN scores)
    IN  [rrf_scores |-> scores, result |-> Prefix(sorted_ids, k)]

----------------------------------------------------------------------------
(* The engine's public functions, called on a profile *)

NoReturn == [none |-> TRUE]

InitTax ==
    /\ profile \in Profiles
    /\ call = "none"
    /\ ret = NoReturn

CallHraExemption ==
    /\ call' = "calculate_hra_exemption"
    /\ ret' = calculate_hra_exemption(profile)
    /\ UNCHANGED profile

CallOldRegime ==
    /\ call' = "calculate_old_regime"
    /\ ret' = calculate_old_regime(profile)
    /\ UNCHANGED profile

CallNewRegime ==
    /\ call' = "calculate_new_regime"
    /\ ret' = calculate_new_regime(profile)
    /\ UNCHANGED profile

CallCompareRegimes ==
    /\ call' = "compare_regimes"
    /\ ret' = compare_regimes(profile)
    /\ UNCHANGED profile

InitSearchIdle ==
    /\ chunks = <<>>
    /\ dense_results = <<>>
    /\ sparse_results = <<>>
    /\ top_k = 0
    /\ rrf_scores = <<>>

InitCiteIdle ==
    /\ answer = <<>>
    /\ kb_chunks = <<>>

InitPipeIdle ==
    /\ retriever = "None"
    /\ mistral_client = "None"
    /\ state = <<>>
    /\ node = "idle"
    /\ executed = <<>>

InitStoreIdle ==
    /\ profiles_table = <<>>
    /\ tax_results_table = <<>>
    /\ db_sessions = <<>>
    /\ last_saved = <<>>

InitQueryIdle ==
    /\ faq_cache = <<>>
    /\ chat_history = <<>>

InitSemIdle ==
    /\ sem_value = 2
    /\ sem_waiters = <<>>
    /\ tasks = <<>>
    /\ blocked = 0

Init ==
    /\ InitTax
    /\ InitSearchIdle
    /\ InitCiteIdle
    /\ InitPipeIdle
    /\ InitSemIdle
    /\ InitStoreIdle
    /\ InitQueryIdle

Next ==
    \/ CallHraExemption /\ UNCHANGED <<searchVars, storeVars, queryVars,
                                       citeVars, pipeVars, semVars>>
    \/ CallOldRegime /\ UNCHANGED <<searchVars, storeVars, queryVars,
                                    citeVars, pipeVars, semVars>>
    \/ CallNewRegime /\ UNCHANGED <<searchVars, storeVars, queryVars,
                                    citeVars, pipeVars, semVars>>
    \/ CallCompareRegimes /\ UNCHANGED <<searchVars, storeVars, queryVars,
                                         citeVars, pipeVars, semVars>>

Spec == Init /\ [][Next]_vars

----------------------------------------------------------------------------
(* The retriever, loaded once and then searched *)

InitTaxIdle ==
    /\ profile = DefaultProfile
    /\ call = "none"
    /\ ret = NoReturn

InitSearch ==
    /\ InitTaxIdle
    /\ chunks \in {LoadChunks(SmallIndex), LoadChunks(LargeIndex)}
    /\ dense_results = <<>>
    /\ sparse_results = <<>>
    /\ top_k = 0
    /\ rrf_scores = <<>>
    /\ InitCiteIdle
    /\ InitPipeIdle
    /\ InitSemIdle
    /\ InitStoreIdle
    /\ InitQueryIdle

\* a query arrives and hybrid_search runs to its return statement
HybridSearch ==
    /\ call = "none"
    /\ \E k \in TopKs, dense \in Rankings(Len(chunks)), sparse \in Rankings(Len(chunks)) :
          LET found == hybrid_search(chunks, dense, sparse, k)
          IN  /\ dense_results' = dense
              /\ sparse_results' = sparse
              /\ top_k' = k
              /\ rrf_scores' = found.rrf_scores
              /\ call' = "hybrid_search"
              /\ ret' = found.result
    /\ UNCHANGED <<profile, chunks, citeVars, storeVars, queryVars, pipeVars, semVars>>

\* the caller has taken the result; the locals of the call are gone
HybridSearchDone ==
    /\ call = "hybrid_search"
    /\ call' = "none"
    /\ ret' = NoReturn
    /\ dense_results' = <<>>
    /\ sparse_results' = <<>>
    /\ top_k' = 0
    /\ rrf_scores' = <<>>
    /\ UNCHANGED <<profile, chunks, citeVars, storeVars, queryVars, pipeVars, semVars>>

NextSearch ==
    \/ HybridSearch
    \/ HybridSearchDone

SpecSearch == InitSearch /\ [][NextSearch]_vars

----------------------------------------------------------------------------
(* Citation validation (llm_service.py)                                    *)
(*                                                                         *)
(* A text is a sequence of characters.  The answer is a sequence of        *)
(* segments: a segment is either plain text or a citation-shaped           *)
(* substring, "[Section <raw>, IT Act ...]", carrying the group <raw> that *)
(* CITATION_REGEX captures from it.                                        *)

\* bounds
MaxSegments == 2
MaxChunks == 2

\* str.lstrip(): leading whitespace removed
RECURSIVE lstrip(_)
lstrip(s) == IF s # <<>> /\ Head(s) = " " THEN lstrip(Tail(s)) ELSE s

\* str.rstrip(): trailing whitespace removed
RECURSIVE rstrip(_)
rstrip(s) == IF s # <<>> /\ s[Len(s)] = " " THEN rstrip(SubSeq(s, 1, Len(s) - 1)) ELSE s

\* str.strip()
strip(s) == rstrip(lstrip(s))

\* re.sub(r"[\s.]", "", s): whitespace and periods removed
sub_space_period(s) == SelectSeq(s, LAMBDA ch : ch # " " /\ ch # ".")

\* sub occurs in text at the 0-based offset i
OccursAt(text, sub, i) ==
    /\ i + Len(sub) <= Len(text)
    /\ SubSeq(text, i + 1, i + Len(sub)) = sub

\* str.find(): the lowest offset at which sub occurs in text, -1 if it does not
find(text, sub) ==
    IF \E i \in 0..Len(text) : OccursAt(text, sub, i)
    THEN CHOOSE i \in 0..Len(text) :
            /\ OccursAt(text, sub, i)
            /\ \A j \in 0..(i - 1) : ~OccursAt(text, sub, j)
    ELSE 0 - 1

\* `sub in text`
Contains(text, sub) == find(text, sub) # 0 - 1

\* CITATION_REGEX.findall(answer): the captured group of each citation-shaped
\* segment, in order of appearance
RECURSIVE CITATION_REGEX_findall(_)
CITATION_REGEX_findall(ans) ==
    IF ans = <<>> THEN <<>>
    ELSE IF Head(ans).cite THEN <<Head(ans).raw>> \o CITATION_REGEX_findall(Tail(ans))
         ELSE CITATION_REGEX_findall(Tail(ans))

\* the condition of the generator in validate_citations: chunk text c supports
\* the reference, verbatim or with whitespace and periods removed on both sides
supports(c, section_ref) ==
    \/ Contains(c, section_ref)
    \/ Contains(sub_space_period(c), sub_space_period(section_ref))

\* next((c for c in chunks if ...), None): the index of the first supporting
\* chunk, 0 for None
supporting_chunk(chs, section_ref) ==
    IF \E i \in 1..Len(chs) : supports(chs[i], section_ref)
    THEN CHOOSE i \in 1..Len(chs) :
            /\ supports(chs[i], section_ref)
            /\ \A j \in 1..(i - 1) : ~supports(chs[j], section_ref)
    ELSE 0

\* the window of the excerpt: characters kept before the match, and after it
EXCERPT_BEFORE == 30
EXCERPT_AFTER == 100

\* the excerpt cut from the supporting chunk's text
excerpt_of(text, section_ref) ==
    LET found == find(text, section_ref)
        idx == IF found = 0 - 1 THEN 0 ELSE found
        start == Max(0, idx - EXCERPT_BEFORE)
        end == Min(Len(text), idx + Len(section_ref) + EXCERPT_AFTER)
    IN  strip(SubSeq(text, start + 1, end))

\* the body of the loop over matches, for one raw_section; the section of the
\* entry is f"Section {section_ref}"
citation_for(raw_section, chs) ==
    LET section_ref == strip(raw_section)
        sc == supporting_chunk(chs, section_ref)
    IN  IF sc = 0
        THEN [section |-> <<"Section ">> \o section_ref, excerpt |-> <<>>,
              verified |-> FALSE]
        ELSE [section |-> <<"Section ">> \o section_ref,
              excerpt |-> excerpt_of(chs[sc], section_ref), verified |-> TRUE]

\* mutant: one citation in the list is enough for "high"
confidence_of_AnyCitation(citations, all_verified) ==
    IF citations # <<>> THEN "high" ELSE "low"

\* "high" if (citations and all_verified) else "low"
confidence_of(citations, all_verified) ==
    IF citations # <<>> /\ all_verified THEN "high" ELSE "low"

\* mutant: a citation that no chunk supports is dropped from the list
validate_citations_DropUnverified(ans, chs) ==
    LET matches == CITATION_REGEX_findall(ans)
        made == [i \in 1..Len(matches) |-> citation_for(matches[i], chs)]
        kept == SelectSeq(made, LAMBDA c : c.verified)
    IN  [citations |-> [i \in 1..Len(kept) |->
                           [section |-> kept[i].section, excerpt |-> kept[i].excerpt]],
         confidence |-> IF matches # <<>> /\ Len(kept) = Len(made) THEN "high" ELSE "low"]

\* validate_citations(answer, chunks) -> (citations, confidence)
validate_citations(ans, chs) ==
    LET matches == CITATION_REGEX_findall(ans)
    IN  IF matches = <<>> THEN [citations |-> <<>>, confidence |-> "low"]
        ELSE LET made == [i \in 1..Len(matches) |-> citation_for(matches[i], chs)]
                 citations == [i \in 1..Len(made) |->
                                  [section |-> made[i].section, excerpt |-> made[i].excerpt]]
                 all_verified == \A i \in 1..Len(made) : made[i].verified
             IN  [citations |-> citations,
                  confidence |-> confidence_of(citations, all_verified)]

\* captured groups: a section the chunks hold verbatim, the same with
\* whitespace after it, one the chunks hold with other punctuation, one
\* they do not hold, and a group of whitespace only
RawSections ==
    { <<"8", "0", "C">>, <<"8", "0", "C", " ">>, <<"8", "0", ".", "C">>,
      <<"9", "9">>, <<" ">> }

\* chunk texts; the last is long enough for the excerpt window to cut it on
\* both sides: 40 characters, "80C", 110 characters
ChunkTexts ==
    { <<"s", " ", "8", "0", "C", " ", "t">>, <<"8", "0", " ", "C", ".">>,
      <<"1", "0">>, <<>>,
      [i \in 1..40 |-> "x"] \o <<"8", "0", "C">> \o [i \in 1..110 |-> "y"] }

\* sequences over S of length at most n
SeqsUpTo(S, n) == UNION {[1..m -> S] : m \in 0..n}

\* answers: each segment plain text or a citation-shaped substring
Answers ==
    SeqsUpTo({[cite |-> FALSE]} \cup {[cite |-> TRUE, raw |-> r] : r \in RawSections},
             MaxSegments)

ChunkLists == SeqsUpTo(ChunkTexts, MaxChunks)

InitCitations ==
    /\ InitTaxIdle
    /\ InitSearchIdle
    /\ InitCiteIdle
    /\ InitPipeIdle
    /\ InitSemIdle
    /\ InitStoreIdle
    /\ InitQueryIdle

\* validate_citations is called on an answer and the chunks it was generated from
ValidateCitations ==
    /\ call = "none"
    /\ \E ans \in Answers, chs \in ChunkLists :
          /\ answer' = ans
          /\ kb_chunks' = chs
          /\ call' = "validate_citations"
          /\ ret' = validate_citations(ans, chs)
    /\ UNCHANGED <<profile, searchVars, storeVars, queryVars, pipeVars, semVars>>

\* the caller has taken the pair
ValidateCitationsDone ==
    /\ call = "validate_citations"
    /\ call' = "none"
    /\ ret' = NoReturn
    /\ answer' = <<>>
    /\ kb_chunks' = <<>>
    /\ UNCHANGED <<profile, searchVars, storeVars, queryVars, pipeVars, semVars>>

NextCitations ==
    \/ ValidateCitations
    \/ ValidateCitationsDone

SpecCitations == InitCitations /\ [][NextCitations]_vars

----------------------------------------------------------------------------
(* The agent pipeline: input stage (graph/agents/input_agent.py,           *)
(* graph/tools/profile_tools.py, agents/input_agent/validator.py)          *)
(*                                                                         *)
(* The TaxMantriState and the payloads are dicts: functions from keys to   *)
(* values.  A key a dict does not hold is outside its DOMAIN.              *)

\* dict.get(key, default)
Get(d, key, default) == IF key \in DOMAIN d THEN d[key] ELSE default

\* LangGraph's merge of a node's return value into the state: input_errors and
\* errors are Annotated with operator.add, every other key is overwritten
MergeState(st, update) ==
    [k \in DOMAIN st \cup DOMAIN update |->
        IF k \in {"input_errors", "errors"}
        THEN Get(st, k, <<>>) \o Get(update, k, <<>>)
        ELSE IF k \in DOMAIN update THEN update[k] ELSE st[k]]

\* the fields of UserFinancialProfile that the engine or the validation reads,
\* in the order of their declaration
FieldOrder ==
    <<"basic_salary", "hra_received", "other_allowances", "professional_tax", "lta",
      "special_allowance", "monthly_rent_paid", "city_type", "other_income",
      "investments_80c", "health_insurance_self", "health_insurance_parents",
      "employee_nps_80ccd1b", "employer_nps_80ccd2", "home_loan_interest",
      "savings_interest_80tta", "age_bracket", "input_method", "parent_senior_citizen">>

\* UserFinancialProfile(**data) when it raises: the fields of the ValidationError,
\* a missing required field or a value outside its constraint; the model
\* validator runs only on a profile whose fields passed
structural_errors(data) ==
    LET bad(f) ==
            IF f \notin DOMAIN data
            THEN f \in {"basic_salary", "city_type", "age_bracket", "input_method"}
            ELSE CASE f = "basic_salary" -> data[f] < 0
                   [] f = "professional_tax" ->
                          data[f] # None /\ (data[f] < 0 \/ data[f] > Rs(2400))
                   [] f \in AmountFields \ {"professional_tax"} ->
                          data[f] # None /\ data[f] < 0
                   [] f = "city_type" -> data[f] \notin {"metro", "non_metro"}
                   [] f = "age_bracket" -> data[f] \notin {"under60", "60_79", "80plus"}
                   [] f = "input_method" -> data[f] \notin {"ocr", "manual"}
                   [] OTHER -> FALSE
        field_errors == SelectSeq(FieldOrder, bad)
    IN  IF field_errors # <<>> THEN field_errors
        ELSE IF OrZero(Get(data, "hra_received", 0)) > data.basic_salary
             THEN <<"validate_hra_not_exceeds_basic">>
             ELSE <<>>

\* UserFinancialProfile(**data) when it does not raise: the fields given, the
\* defaults for the others
UserFinancialProfile(data) ==
    [f \in DOMAIN DefaultProfile \cup {"input_method"} |->
        IF f \in DOMAIN data THEN data[f] ELSE DefaultProfile[f]]

\* mutant: the validation raises at the first violation
validate_business_rules_FirstOnly(p) ==
    IF OrZero(p.investments_80c) > Rs(150000) THEN <<"investments_80c">>
    ELSE IF OrZero(p.home_loan_interest) > Rs(200000) THEN <<"home_loan_interest">>
    ELSE IF OrZero(p.other_income) > Rs(5000000) THEN <<"other_income">>
    ELSE <<>>

\* validate_business_rules: the fields of the violations it collects
validate_business_rules(p) ==
    LET senior == p.age_bracket \in {"60_79", "80plus"}
        over(f) ==
            CASE f = "investments_80c" -> OrZero(p[f]) > Rs(150000)
              [] f = "health_insurance_self" ->
                     OrZero(p[f]) > (IF senior THEN Rs(50000) ELSE Rs(25000))
              [] f = "health_insurance_parents" ->
                     OrZero(p[f]) > (IF p.parent_senior_citizen THEN Rs(50000) ELSE Rs(25000))
              [] f = "home_loan_interest" -> OrZero(p[f]) > Rs(200000)
              [] f = "employee_nps_80ccd1b" -> OrZero(p[f]) > Rs(50000)
              [] f = "employer_nps_80ccd2" -> OrZero(p[f]) * 10 > p.basic_salary
              [] f = "other_income" -> OrZero(p[f]) > Rs(5000000)
    IN  SelectSeq(<<"investments_80c", "health_insurance_self", "health_insurance_parents",
                    "home_loan_interest", "employee_nps_80ccd1b", "employer_nps_80ccd2",
                    "other_income">>, over)

\* validate_profile_tool(profile_data)
validate_profile_tool(profile_data) ==
    IF structural_errors(profile_data) # <<>>
    THEN [is_valid |-> FALSE, errors |-> structural_errors(profile_data)]
    ELSE LET violations == validate_business_rules(UserFinancialProfile(profile_data))
         IN  IF violations # <<>>
             THEN [is_valid |-> FALSE, errors |-> violations]
             ELSE [is_valid |-> TRUE, errors |-> <<>>,
                   profile |-> UserFinancialProfile(profile_data)]

\* structure_profile_tool(profile_data)
structure_profile_tool(profile_data) ==
    IF structural_errors(profile_data) # <<>>
    THEN [success |-> FALSE, error |-> structural_errors(profile_data)]
    ELSE [success |-> TRUE, profile |-> UserFinancialProfile(profile_data)]

\* input_agent_node(state); stored is what get_profile gives for a profile_id
\* (found: a profile, missing: None, raises: the database failed), ocr_result
\* what ocr_extract_tool returns for the file
input_agent_node(st, stored, ocr_result) ==
    LET input_failure(error_msgs) ==
            [input_errors |-> error_msgs, input_confidence |-> 0, should_stop |-> TRUE,
             current_agent |-> "input"]
        input_success(profile_obj) ==
            [profile |-> profile_obj, profile_dict |-> profile_obj,
             input_errors |-> <<>>, input_confidence |-> 1, should_stop |-> FALSE,
             current_agent |-> "input"]
    IN
    IF Get(st, "profile_id", "") # ""
    THEN CASE stored.found -> input_success(stored.profile)
           [] stored.raises -> input_failure(<<"Failed to load profile from database">>)
           [] OTHER -> input_failure(<<"Profile not found in database">>)
    ELSE LET raw_input == Get(st, "raw_input", <<>>)
             given_method == Get(st, "input_method", "manual")
             input_method == IF given_method = "" THEN "manual" ELSE given_method
             use_ocr == given_method = "ocr" /\ Get(st, "file_path", "") # ""
         IN  IF use_ocr /\ ~ocr_result.success
             THEN input_failure(<<"OCR extraction failed">>)
             ELSE LET merged == IF use_ocr
                                THEN [input_method |-> "ocr"] @@ raw_input
                                         @@ ocr_result.profile_fields
                                ELSE [input_method |-> input_method] @@ raw_input
                      validation_result == validate_profile_tool(merged)
                  IN  IF ~validation_result.is_valid
                      THEN input_failure(validation_result.errors)
                      ELSE LET structure_result ==
                                   structure_profile_tool(validation_result.profile)
                           IN  IF ~structure_result.success
                               THEN input_failure(structure_result.error)
                               ELSE input_success(structure_result.profile)

\* mutant: the conditional edge always leads on to the matcher
route_after_input_AlwaysMatcher(st) == "matcher_agent"

\* route_after_input(state), mapped to the node the conditional edge leads to
route_after_input(st) == IF Get(st, "should_stop", FALSE) THEN "error" ELSE "matcher_agent"

----------------------------------------------------------------------------
(* The agent pipeline: matcher and evaluator stages (graph/tools/          *)
(* rag_tools.py, graph/agents/matcher_agent.py, evaluator_agent.py) and    *)
(* the /api/run route (main.py)                                            *)

\* generate_tax_queries_tool(profile): the sections its queries are about
generate_tax_queries_tool(p) ==
    LET pos(f) == OrZero(Get(p, f, 0)) > 0
        when(cond, section) == IF cond THEN <<section>> ELSE <<>>
    IN  <<"Section 115BAC", "Section 16", "Section 87A">>
        \o when(pos("hra_received") /\ pos("monthly_rent_paid"), "Section 10(13A)")
        \o when(pos("investments_80c"), "Section 80C")
        \o when(pos("health_insurance_self") \/ pos("health_insurance_parents"), "Section 80D")
        \o when(pos("employee_nps_80ccd1b"), "Section 80CCD(1B)")
        \o when(pos("employer_nps_80ccd2"), "Section 80CCD(2)")
        \o when(pos("home_loan_interest"), "Section 24(b)")
        \o when(pos("savings_interest_80tta"),
                IF Get(p, "age_bracket", "under60") \in {"60_79", "80plus"}
                THEN "Section 80TTB" ELSE "Section 80TTA")
        \o when(pos("lta"), "Section 10(5)")

\* rag_search_tool(query, top_k) with the retriever rtv; found is what
\* hybrid_search does on this query: it raises, or it returns chunks
rag_search_tool(rtv, found) ==
    IF rtv = "None"
    THEN [success |-> FALSE, chunks |-> <<>>, count |-> 0, error |-> "RAG index not loaded"]
    ELSE IF found.raises
         THEN [success |-> FALSE, chunks |-> <<>>, count |-> 0, error |-> "exception"]
         ELSE [success |-> TRUE, chunks |-> found.chunks, count |-> Len(found.chunks),
               error |-> "None"]

\* the first item of each key, in order; an item whose key is in seen is dropped
RECURSIVE DedupBy(_, _, _)
DedupBy(items, key, seen) ==
    IF items = <<>> THEN <<>>
    ELSE IF Head(items)[key] \in seen THEN DedupBy(Tail(items), key, seen)
         ELSE <<Head(items)>> \o DedupBy(Tail(items), key, seen \cup {Head(items)[key]})

\* Step 2 of matcher_agent_node: the chunks of the successful searches of
\* queries 1..n, in order; searches[i] is what hybrid_search does on query i
RECURSIVE search_all(_, _, _)
search_all(rtv, searches, n) ==
    IF n = 0 THEN <<>>
    ELSE LET search_result == rag_search_tool(rtv, searches[n])
         IN  search_all(rtv, searches, n - 1)
             \o (IF search_result.success THEN search_result.chunks ELSE <<>>)

\* llm_answer_tool(question, chunks, ...); completion is the fate of the call
\* of the Mistral API (ok with the content of the message, or not ok: it raised
\* or timed out)
llm_answer_tool(client, chs, completion) ==
    IF client = "None"
    THEN [answer |-> <<[cite |-> FALSE]>>, citations |-> <<>>, confidence |-> "low",
          error |-> "Mistral client not initialized"]
    ELSE IF ~completion.ok
         THEN [answer |-> <<>>, citations |-> <<>>, confidence |-> "low",
               error |-> "exception"]
         ELSE LET validated ==
                      validate_citations(completion.content,
                                         [i \in 1..Len(chs) |-> chs[i].text])
              IN  [answer |-> completion.content, citations |-> validated.citations,
                   confidence |-> validated.confidence, error |-> "None"]

\* Step 4 of matcher_agent_node and its return value: the law context is the
\* answer of the LLM, or else the first chunks' texts (joined by "\n\n"); the
\* citations are deduplicated by section
synthesize_law_context(queries, retrieved_chunks, llm_result) ==
    LET answered == retrieved_chunks # <<>> /\ llm_result.answer # <<>>
    IN  [tax_queries |-> queries,
         retrieved_chunks |-> retrieved_chunks,
         citations |-> IF answered THEN DedupBy(llm_result.citations, "section", {})
                       ELSE <<>>,
         law_context |->
             IF answered THEN <<[kind |-> "answer", text |-> llm_result.answer]>>
             ELSE [i \in 1..Min(5, Len(retrieved_chunks)) |->
                      [kind |-> "chunk", section_ref |-> retrieved_chunks[i].section_ref,
                       text |-> Prefix(retrieved_chunks[i].text, 200)]],
         matcher_confidence |-> IF answered THEN llm_result.confidence ELSE "low",
         current_agent |-> "matcher"]

\* the chunks the searches retrieved, deduplicated by chunk_id, and the answer
\* of the LLM on the first ten of them
retrieve_and_answer(queries, retrieved_chunks, client, completion) ==
    synthesize_law_context(queries, retrieved_chunks,
                           llm_answer_tool(client, Prefix(retrieved_chunks, 10), completion))

\* matcher_agent_node(state); a chunk with an empty chunk_id is skipped
matcher_agent_node(st, rtv, client, searches, completion) ==
    IF "profile" \notin DOMAIN st
    THEN [tax_queries |-> <<>>, retrieved_chunks |-> <<>>, citations |-> <<>>,
          law_context |-> <<>>, matcher_confidence |-> "low", current_agent |-> "matcher"]
    ELSE retrieve_and_answer(
             generate_tax_queries_tool(Get(st, "profile_dict", <<>>)),
             DedupBy(search_all(rtv, searches,
                                Len(generate_tax_queries_tool(Get(st, "profile_dict", <<>>)))),
                     "chunk_id", {0}),
             client, completion)

\* mutant: the evaluator also adds a rupee to the savings
inject_rationale_SavingsChanged(tax_result, grounded_rationale, citations) ==
    [citations |-> citations]
    @@ [tax_result EXCEPT !.rationale = grounded_rationale,
                          !.savings_amount = @ + Rs(1)]

\* Step 3 of evaluator_agent_node: tax_result["rationale"] and
\* tax_result["citations"] are set
inject_rationale(tax_result, grounded_rationale, citations) ==
    [citations |-> citations] @@ [tax_result EXCEPT !.rationale = grounded_rationale]

\* evaluator_agent_node(state); completion is the fate of the rationale call of
\* the Mistral API, made only with a law context and a client
evaluator_agent_node(st, client, completion) ==
    IF "profile" \notin DOMAIN st
    THEN [tax_result |-> NoReturn, recommendation |-> "new", savings_amount |-> 0,
          rationale |-> [kind |-> "unable"], old_suggestions |-> <<>>,
          new_suggestions |-> <<>>, current_agent |-> "evaluator"]
    ELSE LET tax_result == compare_regimes(Get(st, "profile_dict", <<>>))
             engine_rationale == tax_result.rationale
             citations == Get(st, "citations", <<>>)
             grounded_rationale ==
                 IF Get(st, "law_context", <<>>) # <<>> /\ client # "None"
                        /\ completion.ok /\ completion.content # <<>>
                 THEN [kind |-> "llm", text |-> completion.content]
                 ELSE engine_rationale
             injected == inject_rationale(tax_result, grounded_rationale, citations)
         IN  [tax_result |-> injected,
              recommendation |-> tax_result.recommended_regime,
              savings_amount |-> tax_result.savings_amount,
              rationale |-> grounded_rationale,
              old_suggestions |-> injected.old_regime_suggestions,
              new_suggestions |-> injected.new_regime_suggestions,
              current_agent |-> "evaluator"]

\* error_node(state)
error_node(st) == [current_agent |-> "error", should_stop |-> TRUE]

\* the response of run_pipeline for the final state of the graph
run_pipeline_response(result_state) ==
    IF Get(result_state, "should_stop", FALSE)
    THEN [status_code |-> 422, code |-> "VALIDATION_ERROR",
          details |-> Get(result_state, "input_errors", <<"Unknown validation error">>)]
    ELSE IF Get(result_state, "tax_result", NoReturn) = NoReturn
         THEN [status_code |-> 500, code |-> "PIPELINE_ERROR"]
         ELSE [status_code |-> 200,
               tax_result |-> result_state.tax_result,
               citations |-> Get(result_state, "citations", <<>>),
               sections_retrieved |-> Len(Get(result_state, "retrieved_chunks", <<>>)),
               matcher_confidence |-> Get(result_state, "matcher_confidence", "low")]

\* what hybrid_search does on the first query and on every later one: lists
\* that overlap, a chunk without an id (chunk_id 0), an exception, nothing found,
\* and eleven distinct chunks of which only the last holds "99"
SearchBehaviours ==
    LET KBChunk(id, ref, text) == [chunk_id |-> id, section_ref |-> ref, text |-> text]
        K1 == KBChunk(1, "80C", <<"s", " ", "8", "0", "C", " ", "t">>)
        K2 == KBChunk(2, "87A", <<"1", "0">>)
        K0 == KBChunk(0, "16", <<"x">>)
        Filler(a, b) == [i \in 1..(b - a + 1) |-> KBChunk(a + i - 1, "16", <<"x">>)]
        returns(chs) == [raises |-> FALSE, chunks |-> chs]
        raises == [raises |-> TRUE]
    IN  { <<returns(<<>>), returns(<<>>)>>,
          <<returns(<<K1, K2>>), returns(<<K2, K0, K1>>)>>,
          <<raises, returns(<<K1>>)>>,
          <<raises, raises>>,
          <<returns(<<K1>> \o Filler(3, 7)),
            returns(Filler(8, 11) \o <<KBChunk(12, "99", <<"9", "9">>)>>)>> }

\* the fates of a call of the Mistral API: it raised or timed out, or it
\* returned a message: without content, plain, citing a section the chunks hold,
\* one they do not hold, both, the same section twice
Completions ==
    LET cite(raw) == [cite |-> TRUE, raw |-> raw]
        says(content) == [ok |-> TRUE, content |-> content]
    IN  { [ok |-> FALSE], says(<<>>), says(<<[cite |-> FALSE]>>),
          says(<<cite(<<"8", "0", "C">>)>>),
          says(<<cite(<<"9", "9">>)>>),
          says(<<cite(<<"8", "0", "C">>), cite(<<"9", "9">>)>>),
          says(<<cite(<<"9", "9">>), [cite |-> FALSE], cite(<<"9", "9", " ">>)>>) }

\* the initial states of graph runs: payloads of /api/run (valid in full, for
\* either regime winning, valid with the optional fields left out, a required
\* field missing, a field out of range, HRA above basic, a business rule
\* violated, the OCR path) and a run on a stored profile_id
PipelineRequests ==
    LET manual(raw) == [raw_input |-> raw, input_method |-> "manual", file_path |-> ""]
        required == {"basic_salary", "city_type", "age_bracket"}
        \* high rent and full deductions: the old regime wins
        renting == [DefaultProfile EXCEPT !.basic_salary = Rs(2000000),
                                          !.hra_received = Rs(800000),
                                          !.monthly_rent_paid = Rs(70000),
                                          !.investments_80c = Rs(150000),
                                          !.home_loan_interest = Rs(150000),
                                          !.health_insurance_self = Rs(10000)]
    IN  { manual(ScenarioA), manual(ScenarioB), manual(renting),
          manual([f \in required |-> ScenarioC[f]]),
          manual([f \in required \ {"basic_salary"} |-> ScenarioA[f]]),
          manual([ScenarioA EXCEPT !.lta = 0 - Rs(1)]),
          manual([ScenarioA EXCEPT !.hra_received = Rs(900000)]),
          manual([ScenarioA EXCEPT !.investments_80c = Rs(200000)]),
          [raw_input |-> [city_type |-> "metro", age_bracket |-> "under60"],
           input_method |-> "ocr", file_path |-> "form16.pdf"],
          [raw_input |-> <<>>, input_method |-> "manual", file_path |-> "",
           profile_id |-> "stored"] }

\* what get_profile gives for the profile_id
StoredProfiles ==
    { [found |-> TRUE, raises |-> FALSE, profile |-> UserFinancialProfile(
                                [input_method |-> "manual"] @@ ScenarioA)],
      [found |-> FALSE, raises |-> FALSE], [found |-> FALSE, raises |-> TRUE] }

\* what ocr_extract_tool returns for the file
OcrResults ==
    { [success |-> FALSE],
      [success |-> TRUE, profile_fields |-> [basic_salary |-> Rs(800000)]],
      [success |-> TRUE, profile_fields |-> [lta |-> Rs(10000)]] }

\* startup: the lifespan registers the retriever, or None when the index files
\* are missing, and the client
InitPipeline ==
    /\ InitTaxIdle
    /\ InitSearchIdle
    /\ InitCiteIdle
    /\ InitSemIdle
    /\ InitStoreIdle
    /\ InitQueryIdle
    /\ retriever \in {"TaxRetriever", "None"}
    /\ mistral_client \in {"Mistral", "None"}
    /\ state = <<>>
    /\ node = "idle"
    /\ executed = <<>>

\* run_pipeline builds the initial state and invokes the graph
RunPipeline ==
    /\ node = "idle"
    /\ \E request \in PipelineRequests :
          state' = request @@ [input_errors |-> <<>>, errors |-> <<>>,
                               should_stop |-> FALSE, current_agent |-> "input"]
    /\ node' = "input_agent"
    /\ executed' = <<>>
    /\ UNCHANGED <<taxVars, searchVars, storeVars, queryVars,
                   citeVars, semVars, retriever, mistral_client>>

\* the input_agent node runs, then the conditional edge
InputAgent ==
    /\ node = "input_agent"
    /\ \E stored \in StoredProfiles, ocr_result \in OcrResults :
          state' = MergeState(state, input_agent_node(state, stored, ocr_result))
    /\ node' = route_after_input(state')
    /\ executed' = Append(executed, [node |-> "input_agent", llm |-> "none"])
    /\ UNCHANGED <<taxVars, searchVars, storeVars, queryVars,
                   citeVars, semVars, retriever, mistral_client>>

\* the error node runs; its edge leads to END
ErrorNode ==
    /\ node = "error"
    /\ state' = MergeState(state, error_node(state))
    /\ node' = "END"
    /\ executed' = Append(executed, [node |-> "error", llm |-> "none"])
    /\ UNCHANGED <<taxVars, searchVars, storeVars, queryVars,
                   citeVars, semVars, retriever, mistral_client>>

\* MatcherAgent with its edge leading to END
MatcherAgent_EdgeToEnd ==
    /\ node = "matcher_agent"
    /\ \E behaviour \in SearchBehaviours, completion \in Completions :
          LET searches == [i \in 1..11 |-> IF i = 1 THEN behaviour[1] ELSE behaviour[2]]
              update == matcher_agent_node(state, retriever, mistral_client,
                                           searches, completion)
              llm == IF update.retrieved_chunks = <<>> \/ mistral_client = "None"
                     THEN "none"
                     ELSE IF completion.ok THEN "ok" ELSE "failed"
          IN  /\ state' = MergeState(state, update)
              /\ executed' = Append(executed, [node |-> "matcher_agent", llm |-> llm])
    /\ node' = "END"
    /\ UNCHANGED <<taxVars, searchVars, storeVars, queryVars,
                   citeVars, semVars, retriever, mistral_client>>

\* the matcher_agent node runs; its edge leads to evaluator_agent
MatcherAgent ==
    /\ node = "matcher_agent"
    /\ \E behaviour \in SearchBehaviours, completion \in Completions :
          LET searches == [i \in 1..11 |-> IF i = 1 THEN behaviour[1] ELSE behaviour[2]]
              update == matcher_agent_node(state, retriever, mistral_client,
                                           searches, completion)
              llm == IF update.retrieved_chunks = <<>> \/ mistral_client = "None"
                     THEN "none"
                     ELSE IF completion.ok THEN "ok" ELSE "failed"
          IN  /\ state' = MergeState(state, update)
              /\ executed' = Append(executed, [node |-> "matcher_agent", llm |-> llm])
    /\ node' = "evaluator_agent"
    /\ UNCHANGED <<taxVars, searchVars, storeVars, queryVars,
                   citeVars, semVars, retriever, mistral_client>>

\* the evaluator_agent node runs; its edge leads to END
EvaluatorAgent ==
    /\ node = "evaluator_agent"
    /\ \E completion \in Completions :
          LET llm == IF Get(state, "law_context", <<>>) = <<>> \/ mistral_client = "None"
                     THEN "none"
                     ELSE IF completion.ok THEN "ok" ELSE "failed"
          IN  /\ state' = MergeState(state, evaluator_agent_node(state, mistral_client,
                                                                 completion))
              /\ executed' = Append(executed, [node |-> "evaluator_agent", llm |-> llm])
    /\ node' = "END"
    /\ UNCHANGED <<taxVars, searchVars, storeVars, queryVars,
                   citeVars, semVars, retriever, mistral_client>>

\* the graph has ended: run_pipeline answers the request
PipelineResponse ==
    /\ node = "END"
    /\ call' = "run_pipeline"
    /\ ret' = run_pipeline_response(state)
    /\ node' = "done"
    /\ UNCHANGED <<profile, searchVars, storeVars, queryVars,
                   citeVars, semVars, retriever, mistral_client,
                   state, executed>>

NextPipeline ==
    \/ RunPipeline
    \/ InputAgent
    \/ ErrorNode
    \/ MatcherAgent
    \/ EvaluatorAgent
    \/ PipelineResponse

SpecPipeline == InitPipeline /\ [][NextPipeline]_vars

----------------------------------------------------------------------------
(* The LLM call sites and the shared semaphore (main.py, llm_service.py    *)
(* generate_answer, rag_tools.py llm_answer_tool, evaluator_agent.py)      *)
(*                                                                         *)
(* Every request is a task of the one event loop of the main thread.  A    *)
(* /api/query request calls the LLM in generate_answer; a /api/run request *)
(* calls it in llm_answer_tool (matcher stage) and then in the evaluator.  *)
(* generate_answer and the evaluator await the semaphore in the main loop. *)
(* llm_answer_tool is a synchronous tool: it submits asyncio.run(_call())  *)
(* to a worker thread and blocks the main thread, and with it the main     *)
(* loop and every other task, on future.result and on the executor's       *)
(* shutdown, until the worker is through.                                  *)

\* bound: the requests in the system
NumRequests == 3

Requests == 1..NumRequests

\* mutant: acquire() never finds the semaphore locked
locked_Never(value, waiters) == FALSE

\* Semaphore.locked(): no free slot, or tasks already waiting for one
locked(value, waiters) == value = 0 \/ waiters # <<>>

\* mutant: a cancelled call leaves without giving its slot back
released_LeakOnCancel(value, how) == IF how = "cancelled" THEN value ELSE value + 1

\* Semaphore.release(), run by __aexit__ however the body of `async with` ended
released(value, how) == value + 1

\* the requests whose LLM call is in flight: they are inside `async with`
InFlight == {t \in Requests : tasks[t].phase = "in_flight"}

InitLLM ==
    /\ InitTaxIdle
    /\ InitSearchIdle
    /\ InitCiteIdle
    /\ InitPipeIdle
    /\ InitStoreIdle
    /\ InitQueryIdle
    /\ sem_value = 2
    /\ sem_waiters = <<>>
    /\ tasks = [t \in Requests |->
                   [site |-> "none", phase |-> "new", ended |-> "none", degraded |-> FALSE]]
    /\ blocked = 0

\* a request arrives and its handler runs up to its first LLM call
Arrive(t) ==
    /\ blocked = 0
    /\ tasks[t].phase = "new"
    /\ \E site \in {"generate_answer", "llm_answer_tool"} :
          tasks' = [tasks EXCEPT ![t].site = site, ![t].phase = "acquire"]
    /\ UNCHANGED <<sem_value, sem_waiters, blocked>>

\* `async with semaphore` in a task of the main loop (generate_answer, the
\* evaluator): it takes a free slot, or it is suspended at the end of the queue
Acquire(t) ==
    /\ blocked = 0
    /\ tasks[t].site \in {"generate_answer", "evaluator"}
    /\ tasks[t].phase = "acquire"
    /\ IF locked(sem_value, sem_waiters)
       THEN /\ sem_waiters' = Append(sem_waiters, t)
            /\ tasks' = [tasks EXCEPT ![t].phase = "waiting"]
            /\ UNCHANGED sem_value
       ELSE /\ sem_value' = sem_value - 1
            /\ tasks' = [tasks EXCEPT ![t].phase = "in_flight"]
            /\ UNCHANGED sem_waiters
    /\ UNCHANGED blocked

\* llm_answer_tool: the main thread blocks and _call() runs in the loop of the
\* worker thread.  With a free slot it takes it.  Without one it has to wait on
\* a semaphore of the main loop from another loop, which asyncio does not
\* support: by the version of asyncio either the wait raises RuntimeError, the
\* tool returns its fallback (answer "", no citations, "low") and the run goes
\* on, or the worker is suspended on a future nobody can resolve while the main
\* thread waits for the worker.
ToolAcquire(t) ==
    /\ blocked = 0
    /\ tasks[t].site = "llm_answer_tool"
    /\ tasks[t].phase = "acquire"
    /\ IF locked(sem_value, sem_waiters)
       THEN \/ /\ tasks' = [tasks EXCEPT ![t].site = "evaluator", ![t].phase = "acquire",
                                        ![t].degraded = TRUE]
               /\ UNCHANGED <<sem_value, sem_waiters, blocked>>
            \/ /\ tasks' = [tasks EXCEPT ![t].phase = "stuck"]
               /\ sem_waiters' = Append(sem_waiters, t)
               /\ blocked' = t
               /\ UNCHANGED sem_value
       ELSE /\ sem_value' = sem_value - 1
            /\ tasks' = [tasks EXCEPT ![t].phase = "in_flight"]
            /\ blocked' = t
            /\ UNCHANGED sem_waiters

\* the LLM call of t ends and `async with` is left: the slot goes to the first
\* waiter, which then makes its call, or back to the semaphore.  A cancelled
\* request is over; a run goes from the matcher stage on to the evaluator.
CallEnds(t, how) ==
    /\ tasks[t].phase = "in_flight"
    /\ IF tasks[t].site = "llm_answer_tool"
       THEN blocked = t /\ how # "cancelled"
       ELSE blocked = 0
    /\ blocked' = 0
    /\ LET next == IF tasks[t].site = "llm_answer_tool" /\ how # "cancelled"
                   THEN [tasks[t] EXCEPT !.site = "evaluator", !.phase = "acquire",
                                         !.ended = how]
                   ELSE [tasks[t] EXCEPT !.phase = "done", !.ended = how]
           freed == released(sem_value, how)
       IN  IF sem_waiters # <<>> /\ freed > 0
           THEN /\ sem_value' = freed - 1
                /\ sem_waiters' = Tail(sem_waiters)
                /\ tasks' = [tasks EXCEPT ![t] = next,
                                          ![Head(sem_waiters)].phase = "in_flight"]
           ELSE /\ sem_value' = freed
                /\ tasks' = [tasks EXCEPT ![t] = next]
                /\ UNCHANGED sem_waiters

\* the caller abandons a request that is suspended in acquire(): the waiter is
\* cancelled and leaves the queue
CancelWaiting(t) ==
    /\ blocked = 0
    /\ tasks[t].phase = "waiting"
    /\ sem_waiters' = SelectSeq(sem_waiters, LAMBDA w : w # t)
    /\ tasks' = [tasks EXCEPT ![t].phase = "done", ![t].ended = "cancelled_waiting"]
    /\ UNCHANGED <<sem_value, blocked>>

\* a finished request is followed by a new one
NextRequest(t) ==
    /\ blocked = 0
    /\ tasks[t].phase = "done"
    /\ tasks' = [tasks EXCEPT ![t] = [site |-> "none", phase |-> "new", ended |-> "none",
                                      degraded |-> FALSE]]
    /\ UNCHANGED <<sem_value, sem_waiters, blocked>>

NextLLM ==
    \/ \E t \in Requests : Arrive(t) /\ UNCHANGED <<taxVars, searchVars, storeVars, queryVars,
                                                    citeVars, pipeVars>>
    \/ \E t \in Requests : Acquire(t) /\ UNCHANGED <<taxVars, searchVars, storeVars, queryVars,
                                                     citeVars, pipeVars>>
    \/ \E t \in Requests : ToolAcquire(t) /\ UNCHANGED <<taxVars, searchVars, storeVars, queryVars,
                                                         citeVars, pipeVars>>
    \/ \E t \in Requests, how \in {"returned", "raised", "timed_out", "cancelled"} :
          CallEnds(t, how) /\ UNCHANGED <<taxVars, searchVars, storeVars, queryVars,
                                          citeVars, pipeVars>>
    \/ \E t \in Requests : CancelWaiting(t) /\ UNCHANGED <<taxVars, searchVars, storeVars, queryVars,
                                                           citeVars, pipeVars>>
    \/ \E t \in Requests : NextRequest(t) /\ UNCHANGED <<taxVars, searchVars, storeVars, queryVars,
                                                         citeVars, pipeVars>>

SpecLLM == InitLLM /\ [][NextLLM]_vars

\* every call in flight ends, and a task of a loop that runs takes its steps
LLMFairness ==
    \A t \in Requests :
        /\ WF_vars(\E how \in {"returned", "raised", "timed_out"} : CallEnds(t, how)
                       /\ UNCHANGED <<taxVars, searchVars, storeVars, queryVars,
                                      citeVars, pipeVars>>)
        /\ WF_vars(Acquire(t) /\ UNCHANGED <<taxVars, searchVars, storeVars, queryVars,
                                             citeVars, pipeVars>>)
        /\ WF_vars(ToolAcquire(t) /\ UNCHANGED <<taxVars, searchVars, storeVars, queryVars,
                                                 citeVars, pipeVars>>)

SpecLLMFair == SpecLLM /\ LLMFairness

----------------------------------------------------------------------------
(* validator.py: validate_business_rules, called on a structurally valid   *)
(* profile                                                                 *)

\* profiles with each of the seven checked amounts at its cap or just above
\* it, for both caps of each Section 80D rule
RuleProfiles ==
    LET at_or_over(cap) == {Rs(cap), Rs(cap) + 1}
        base == [DefaultProfile EXCEPT !.basic_salary = Rs(1000000)]
    IN  { [base EXCEPT !.investments_80c = c80, !.health_insurance_self = self,
                       !.health_insurance_parents = parents,
                       !.home_loan_interest = loan, !.employee_nps_80ccd1b = nps,
                       !.employer_nps_80ccd2 = employer, !.other_income = other,
                       !.age_bracket = age, !.parent_senior_citizen = senior] :
            c80 \in at_or_over(150000),
            self \in {Rs(25000), Rs(25000) + 1, Rs(50000) + 1},
            parents \in {None, Rs(25000) + 1, Rs(50000) + 1},
            loan \in at_or_over(200000),
            nps \in at_or_over(50000),
            employer \in at_or_over(100000),
            other \in at_or_over(5000000),
            age \in {"under60", "60_79", "80plus"},
            senior \in BOOLEAN }

InitRules ==
    /\ profile \in RuleProfiles
    /\ call = "none"
    /\ ret = NoReturn
    /\ InitSearchIdle
    /\ InitCiteIdle
    /\ InitPipeIdle
    /\ InitSemIdle
    /\ InitStoreIdle
    /\ InitQueryIdle

\* validate_business_rules(profile) returns None or raises ValueError with the
\* JSON list of its violations
ValidateBusinessRules ==
    /\ call = "none"
    /\ call' = "validate_business_rules"
    /\ ret' = [raised |-> validate_business_rules(profile) # <<>>,
               violations |-> validate_business_rules(profile)]
    /\ UNCHANGED <<profile, searchVars, storeVars, queryVars, citeVars, pipeVars, semVars>>

\* the caller has handled the outcome
ValidateBusinessRulesDone ==
    /\ call = "validate_business_rules"
    /\ call' = "none"
    /\ ret' = NoReturn
    /\ UNCHANGED <<profile, searchVars, storeVars, queryVars, citeVars, pipeVars, semVars>>

NextRules ==
    \/ ValidateBusinessRules
    \/ ValidateBusinessRulesDone

SpecRules == InitRules /\ [][NextRules]_vars

----------------------------------------------------------------------------
(* store.py: save_result and get_result on the tax_results table           *)
(* (models/tax_result.py).  A row is [profile_id, result_data]; rows are   *)
(* never deleted, so a row is known by its position.  Each request has its *)
(* own database session; save_result awaits the SELECT and then the flush, *)
(* and other sessions run between the two.  A flush is taken together with *)
(* the commit that ends the request.                                       *)

\* the database sessions that are open at the same time
NumSessions == 2

Sessions == 1..NumSessions

\* the profile_ids and the result_data the calls are made with
ResultProfileIds == {"p1", "p2"}

ResultData == {"r1", "r2", "r3"}

\* select(TaxResultORM).where(TaxResultORM.profile_id == profile_id): the rows
RowsOf(rows, profile_id) == {i \in 1..Len(rows) : rows[i].profile_id = profile_id}

\* scalar_one_or_none(): the row, 0 for None; it raises on several rows
scalar_one_or_none(found) ==
    IF found = {} THEN [raised |-> FALSE, orm |-> 0]
    ELSE IF Cardinality(found) = 1
         THEN [raised |-> FALSE, orm |-> CHOOSE i \in found : TRUE]
         ELSE [raised |-> TRUE, orm |-> 0]

\* mutant: the save always adds a row, and the table has no unique index
save_result_flush_InsertOnly(rows, orm, result) ==
    [raised |-> FALSE,
     rows |-> Append(rows, [profile_id |-> result.profile_id, result_data |-> result.data])]

\* the second half of save_result: db.add(new row), or the assignment to the
\* row found, then flush(); the unique index on profile_id rejects a second row
save_result_flush(rows, orm, result) ==
    IF orm = 0
    THEN IF RowsOf(rows, result.profile_id) # {}
         THEN [raised |-> TRUE, rows |-> rows]
         ELSE [raised |-> FALSE,
               rows |-> Append(rows, [profile_id |-> result.profile_id,
                                      result_data |-> result.data])]
    ELSE [raised |-> FALSE, rows |-> [rows EXCEPT ![orm].result_data = result.data]]

\* get_result(db, profile_id): the result, or None
get_result(rows, profile_id) ==
    LET found == scalar_one_or_none(RowsOf(rows, profile_id))
    IN  IF found.raised THEN [raised |-> TRUE]
        ELSE IF found.orm = 0 THEN [raised |-> FALSE, none |-> TRUE]
        ELSE [raised |-> FALSE, none |-> FALSE, result |-> rows[found.orm].result_data]

InitResults ==
    /\ InitTaxIdle
    /\ InitSearchIdle
    /\ InitCiteIdle
    /\ InitPipeIdle
    /\ InitSemIdle
    /\ InitQueryIdle
    /\ profiles_table = <<>>
    /\ tax_results_table = <<>>
    /\ db_sessions = [t \in Sessions |-> [phase |-> "idle"]]
    /\ last_saved = <<>>

\* save_result up to its first await: the SELECT of the existing row
SaveResultSelect(t) ==
    /\ db_sessions[t].phase = "idle"
    /\ \E profile_id \in ResultProfileIds, data \in ResultData :
          LET existing == scalar_one_or_none(RowsOf(tax_results_table, profile_id))
          IN  IF existing.raised
              THEN /\ call' = "save_result"
                   /\ ret' = [session |-> t, profile_id |-> profile_id, existed |-> TRUE,
                              raised |-> TRUE]
                   /\ UNCHANGED db_sessions
              ELSE /\ db_sessions' =
                          [db_sessions EXCEPT ![t] =
                              [phase |-> "selected", orm |-> existing.orm,
                               result |-> [profile_id |-> profile_id, data |-> data]]]
                   /\ UNCHANGED <<call, ret>>
    /\ UNCHANGED <<profile, searchVars, citeVars, pipeVars, semVars, queryVars,
                   profiles_table, tax_results_table, last_saved>>

\* save_result from the SELECT's answer to its return: add or assign, flush
SaveResultFlush(t) ==
    /\ db_sessions[t].phase = "selected"
    /\ LET result == db_sessions[t].result
           flushed == save_result_flush(tax_results_table, db_sessions[t].orm, result)
       IN  /\ tax_results_table' = flushed.rows
           /\ last_saved' = IF flushed.raised THEN last_saved
                            ELSE (result.profile_id :> result.data) @@ last_saved
           /\ call' = "save_result"
           /\ ret' = [session |-> t, profile_id |-> result.profile_id,
                      existed |-> db_sessions[t].orm # 0, raised |-> flushed.raised]
    /\ db_sessions' = [db_sessions EXCEPT ![t] = [phase |-> "idle"]]
    /\ UNCHANGED <<profile, searchVars, citeVars, pipeVars, semVars, queryVars,
                   profiles_table>>

\* get_result(db, profile_id) in session t
GetResult(t) ==
    /\ db_sessions[t].phase = "idle"
    /\ \E profile_id \in ResultProfileIds :
          /\ call' = "get_result"
          /\ ret' = [session |-> t, profile_id |-> profile_id]
                    @@ get_result(tax_results_table, profile_id)
    /\ UNCHANGED <<profile, searchVars, citeVars, pipeVars, semVars, queryVars, storeVars>>

NextResults ==
    \/ \E t \in Sessions : SaveResultSelect(t)
    \/ \E t \in Sessions : SaveResultFlush(t)
    \/ \E t \in Sessions : GetResult(t)

SpecResults == InitResults /\ [][NextResults]_vars

----------------------------------------------------------------------------
(* matcher_agent/routes.py: POST /api/query, with the FAQ cache (cache.py) *)
(* and the chat history (store.py).  The answer of the LLM is kept as what *)
(* it was generated from: the content the model returned and the profile   *)
(* and tax-result summaries that were in its prompt.                       *)

\* the requests that are answered and recorded before the run is cut off
MaxQueries == 2

\* str.lower() on the characters the questions use
lower(s) ==
    [i \in 1..Len(s) |-> CASE s[i] = "H" -> "h" [] s[i] = "R" -> "r"
                           [] s[i] = "A" -> "a" [] s[i] = "C" -> "c"
                           [] OTHER -> s[i]]

\* make_faq_key(question): the key is the SHA-256 of the question stripped and
\* lowercased, one key for each normalised question
make_faq_key(question) == lower(strip(question))

\* bool(body.profile_id): None and "" are false
truthy(profile_id) == profile_id \notin {"None", ""}

\* mutant: every request goes through the FAQ cache
use_faq_cache_Always(body) == TRUE

\* "if not body.profile_id": the request goes through the FAQ cache
use_faq_cache(body) == ~truthy(body.profile_id)

\* get_profile(db, profile_id)
get_profile(table, profile_id) ==
    IF profile_id \in DOMAIN table THEN table[profile_id] ELSE NoReturn

\* build_profile_summary(profile): the numeric fields it prints
build_profile_summary(p) ==
    [f \in {"basic_salary", "hra_received", "monthly_rent_paid", "city_type",
            "age_bracket", "investments_80c", "health_insurance_self",
            "home_loan_interest", "employee_nps_80ccd1b"} |-> p[f]]

\* build_tax_result_summary(tax_result): the figures it prints
build_tax_result_summary(tax_result) ==
    [recommended_regime |-> tax_result.recommended_regime,
     savings_amount |-> tax_result.savings_amount,
     old_total_tax |-> tax_result.old_regime.total_tax,
     new_total_tax |-> tax_result.new_regime.total_tax]

\* generate_answer(...) when the call of the API returns content
generate_answer(question, chs, profile_summary, tax_result_summary, content) ==
    LET validated == validate_citations(content, [i \in 1..Len(chs) |-> chs[i].text])
    IN  [answer |-> [content |-> content, question |-> question,
                     profile_summary |-> profile_summary,
                     tax_result_summary |-> tax_result_summary],
         citations |-> validated.citations,
         confidence |-> validated.confidence,
         answer_mode |-> IF chs # <<>> THEN "kb_grounded" ELSE "general"]

\* query_endpoint(body, ...): its response and what it did to the cache and
\* to the chat history; found is what hybrid_search returns, completion the
\* fate of the call of the API
query_endpoint(body, cache, profiles, rows, rtv, found, completion) ==
    LET key == make_faq_key(body.question)
        cache_read == use_faq_cache(body)
        hit == cache_read /\ key \in DOMAIN cache
        profile_found == truthy(body.profile_id)
                            /\ get_profile(profiles, body.profile_id) # NoReturn
        result_found == truthy(body.profile_id)
                            /\ ~get_result(rows, body.profile_id).none
        result == generate_answer(
                      body.question, found,
                      IF profile_found
                      THEN build_profile_summary(get_profile(profiles, body.profile_id))
                      ELSE NoReturn,
                      IF result_found
                      THEN build_tax_result_summary(get_result(rows, body.profile_id).result)
                      ELSE NoReturn,
                      completion.content)
        chat(fields) == <<[session_id |-> body.session_id, question |-> body.question,
                           answer |-> fields.answer, confidence |-> fields.confidence]>>
    IN  IF hit
        THEN [status_code |-> 200, body |-> [cache[key] EXCEPT !.cached = TRUE],
              cache_read |-> TRUE, cache_written |-> FALSE,
              cache |-> cache, chat |-> chat(cache[key])]
        ELSE IF rtv = "None"
        THEN [status_code |-> 503, cache_read |-> cache_read, cache_written |-> FALSE,
              cache |-> cache, chat |-> <<>>]
        ELSE IF ~completion.ok
        THEN [status_code |-> 500, cache_read |-> cache_read, cache_written |-> FALSE,
              cache |-> cache, chat |-> <<>>]
        ELSE [status_code |-> 200, body |-> [cached |-> FALSE] @@ result,
              cache_read |-> cache_read, cache_written |-> use_faq_cache(body),
              cache |-> IF use_faq_cache(body)
                        THEN (key :> ([cached |-> FALSE] @@ result)) @@ cache
                        ELSE cache,
              chat |-> chat(result)]

\* the questions: two that make_faq_key takes to one key, and another
Questions == { <<"H", "R", "A">>, <<" ", "h", "r", "a">>, <<"8", "0", "C">> }

\* body.profile_id: absent, empty, a stored profile with a tax result, unknown
QueryProfileIds == {"None", "", "p1", "p2"}

\* startup, with a confirmed profile and its tax result in the database
InitQuery ==
    /\ InitTaxIdle
    /\ InitSearchIdle
    /\ InitCiteIdle
    /\ InitSemIdle
    /\ retriever \in {"TaxRetriever", "None"}
    /\ mistral_client = "Mistral"
    /\ state = <<>>
    /\ node = "idle"
    /\ executed = <<>>
    /\ profiles_table = ("p1" :> UserFinancialProfile([input_method |-> "manual"] @@ ScenarioA))
    /\ tax_results_table = <<[profile_id |-> "p1", result_data |-> compare_regimes(ScenarioA)]>>
    /\ db_sessions = <<>>
    /\ last_saved = <<>>
    /\ faq_cache = <<>>
    /\ chat_history = <<>>

\* POST /api/query is handled
QueryEndpoint ==
    /\ Len(chat_history) < MaxQueries
    /\ \E question \in Questions, profile_id \in QueryProfileIds,
          found \in {<<>>, <<[text |-> <<"s", " ", "8", "0", "C">>]>>},
          completion \in {[ok |-> FALSE],
                          [ok |-> TRUE, content |-> <<[cite |-> TRUE, raw |-> <<"8", "0", "C">>]>>]} :
          LET body == [question |-> question, profile_id |-> profile_id, session_id |-> "s1"]
              done == query_endpoint(body, faq_cache, profiles_table, tax_results_table,
                                     retriever, found, completion)
          IN  /\ call' = "query_endpoint"
              /\ ret' = [request |-> body,
                         response |-> [f \in DOMAIN done \ {"cache", "chat"} |-> done[f]]]
              /\ faq_cache' = done.cache
              /\ chat_history' = chat_history \o done.chat
    /\ UNCHANGED <<profile, searchVars, citeVars, pipeVars, semVars, storeVars>>

\* the TTL of a cached answer runs out (FAQ_TTL)
FaqExpire ==
    /\ \E key \in DOMAIN faq_cache :
          faq_cache' = [k \in DOMAIN faq_cache \ {key} |-> faq_cache[k]]
    /\ UNCHANGED <<taxVars, searchVars, citeVars, pipeVars, semVars, storeVars, chat_history>>

NextQuery ==
    \/ QueryEndpoint
    \/ FaqExpire

SpecQuery == InitQuery /\ [][NextQuery]_vars

----------------------------------------------------------------------------
(* tax_engine.py, optimizer.py: the slab functions, called on a taxable    *)
(* income                                                                  *)

\* the finite ceilings of both slab tables
SlabCeilings ==
    {OLD_REGIME_SLABS[i][1] : i \in 1..(Len(OLD_REGIME_SLABS) - 1)}
    \cup {NEW_REGIME_SLABS[i][1] : i \in 1..(Len(NEW_REGIME_SLABS) - 1)}

\* taxable incomes: zero, the smallest amounts, every ceiling, the paisa and the
\* rupee on either side of it, and an income in the top bracket of both tables
TaxableIncomes ==
    {0, 1, Rs(1), Rs(3000000)}
    \cup {ceiling + d : ceiling \in SlabCeilings, d \in {0 - Rs(1), 0 - 1, 0, 1, Rs(1)}}

\* the slab table a regime name stands for
SlabsOf(regime) == IF regime = "old" THEN OLD_REGIME_SLABS ELSE NEW_REGIME_SLABS

InitSlabs ==
    /\ InitTaxIdle
    /\ InitSearchIdle
    /\ InitCiteIdle
    /\ InitPipeIdle
    /\ InitSemIdle
    /\ InitStoreIdle
    /\ InitQueryIdle

\* _calculate_slab_tax(taxable_income, slabs); the return value is kept with its
\* arguments
CallSlabTax ==
    /\ \E taxable_income \in TaxableIncomes, regime \in {"old", "new"} :
          ret' = [taxable_income |-> taxable_income, slabs |-> regime,
                  tax |-> _calculate_slab_tax(taxable_income, SlabsOf(regime))]
    /\ call' = "_calculate_slab_tax"
    /\ UNCHANGED <<profile, searchVars, storeVars, queryVars, citeVars, pipeVars, semVars>>

\* _old_marginal_rate(taxable_income)
CallOldMarginalRate ==
    /\ \E taxable_income \in TaxableIncomes :
          ret' = [taxable_income |-> taxable_income, slabs |-> "old",
                  rate |-> _old_marginal_rate(taxable_income)]
    /\ call' = "_old_marginal_rate"
    /\ UNCHANGED <<profile, searchVars, storeVars, queryVars, citeVars, pipeVars, semVars>>

\* _new_marginal_rate(taxable_income)
CallNewMarginalRate ==
    /\ \E taxable_income \in TaxableIncomes :
          ret' = [taxable_income |-> taxable_income, slabs |-> "new",
                  rate |-> _new_marginal_rate(taxable_income)]
    /\ call' = "_new_marginal_rate"
    /\ UNCHANGED <<profile, searchVars, storeVars, queryVars, citeVars, pipeVars, semVars>>

NextSlabs ==
    \/ CallSlabTax
    \/ CallOldMarginalRate
    \/ CallNewMarginalRate

SpecSlabs == InitSlabs /\ [][NextSlabs]_vars

----------------------------------------------------------------------------
(* optimizer.py: the suggestions, for profiles with every kind of headroom *)

\* profiles in each old-regime bracket whose optimizable sections are unused,
\* nearly used up (a headroom worth less than the minimum saving) or used up
HeadroomProfiles ==
    {p \in {[DefaultProfile EXCEPT !.basic_salary = b, !.investments_80c = c,
                                   !.health_insurance_self = hs,
                                   !.health_insurance_parents = hp,
                                   !.employee_nps_80ccd1b = nps,
                                   !.home_loan_interest = hl] :
                b \in {Rs(200000), Rs(400000), Rs(900000), Rs(2000000)},
                c \in {0, Rs(140000), Rs(148000), Rs(150000)},
                hs \in {0, Rs(24000)},
                hp \in {None, Rs(20000)},
                nps \in {0, Rs(48000)},
                hl \in {0, Rs(190000), Rs(200000)}} : ValidProfile(p)}

InitSuggestions ==
    /\ profile \in HeadroomProfiles
    /\ call = "none"
    /\ ret = NoReturn
    /\ InitSearchIdle
    /\ InitCiteIdle
    /\ InitPipeIdle
    /\ InitSemIdle
    /\ InitStoreIdle
    /\ InitQueryIdle

SpecSuggestions == InitSuggestions /\ [][Next]_vars

----------------------------------------------------------------------------
(* The agent pipeline under the scheduling of the compiled graph *)

\* the nodes of the graph
GraphNodes == {"input_agent", "error", "matcher_agent", "evaluator_agent"}

\* the node that runs returns and its edge is followed: in a run of the graph this
\* is the step InputAgent, ErrorNode, MatcherAgent or EvaluatorAgent of that node
NodeReturns ==
    /\ node \in GraphNodes
    /\ node' \in (GraphNodes \cup {"END"}) \ {node}

\* compiled.ainvoke runs the node an edge leads to as soon as the node before it
\* has returned, and every node returns: none of them loops, and each call to the
\* LLM is bounded by a timeout
PipelineFairness == WF_node(NodeReturns)

SpecPipelineFair == SpecPipeline /\ PipelineFairness

----------------------------------------------------------------------------
(* The profile store behind POST /api/profile, PUT /api/profile/confirm    *)
(* and POST /api/calculate (input_agent/routes.py, evaluator_agent/        *)
(* routes.py, store.py).  A request runs in its own database session,      *)
(* which get_db commits when the handler returns and rolls back when it    *)
(* raises; a handler is taken as one step.                                 *)

\* the profile_ids there are: a client sends any of them, uuid4 gives one that is
\* not in the table
ProfileIdPool == {"p1", "p2"}

\* no uuid4 value is left
NoUuid == "exhausted"

\* the values uuid4 may return
Uuid4(table) ==
    IF ProfileIdPool \subseteq DOMAIN table THEN {NoUuid} ELSE ProfileIdPool \ DOMAIN table

\* request bodies of UserFinancialProfile shape: valid ones, one that breaks a
\* business rule, one with a field outside its constraint and one that fails the
\* model validator, without a profile_id; with one, a valid body and the one that
\* breaks a rule
ProfileBodies ==
    LET manual == [input_method |-> "manual"] @@ ScenarioA
        plain == { manual,
                   [f \in {"basic_salary", "city_type", "age_bracket", "input_method"} |->
                       manual[f]],
                   [manual EXCEPT !.investments_80c = Rs(200000)],
                   [manual EXCEPT !.lta = 0 - Rs(1)],
                   [manual EXCEPT !.hra_received = Rs(900000)] }
    IN  plain \cup {[profile_id |-> id] @@ body :
                        id \in ProfileIdPool,
                        body \in {manual, [manual EXCEPT !.investments_80c = Rs(200000)]}}

\* redis.get(f"ocr:{session_id}"): None (NoReturn) for an expired or unknown
\* session, else what POST /api/upload stored
OcrSessions ==
    { NoReturn,
      [profile_fields |-> [basic_salary |-> Rs(800000)]],
      [profile_fields |-> [basic_salary |-> Rs(800000), investments_80c |-> Rs(200000)]] }

\* ConfirmRequest.edited_fields
EditedFields ==
    { <<>>,
      [city_type |-> "metro", age_bracket |-> "under60"],
      [city_type |-> "metro", age_bracket |-> "under60", investments_80c |-> Rs(100000)],
      [city_type |-> "metro", age_bracket |-> "under60", profile_id |-> "p1"] }

\* tax_graph of app.state, "None" when the graph was not built, else ainvoke runs
\* the graph or raises; and whether the database answers the input stage
TaxGraphs == {<<"None", TRUE>>, <<"raises", TRUE>>, <<"runs", TRUE>>, <<"runs", FALSE>>}

\* save_profile(db, profile): db.add and flush; the primary key rejects an id
\* that is in the table
save_profile(table, profile_id, profile_data) ==
    IF profile_id \in DOMAIN table
    THEN [raised |-> TRUE, table |-> table]
    ELSE [raised |-> FALSE, table |-> (profile_id :> profile_data) @@ table]

\* the rest of a handler once its profile is parsed: business rules, then
\* save_profile
validate_and_save(table, profile_id, profile_obj) ==
    IF validate_business_rules(profile_obj) # <<>>
    THEN [status_code |-> 422, table |-> table, profile_id |-> "None"]
    ELSE IF save_profile(table, profile_id, profile_obj).raised
    THEN [status_code |-> 500, table |-> table, profile_id |-> "None"]
    ELSE [status_code |-> 200, table |-> save_profile(table, profile_id, profile_obj).table,
          profile_id |-> profile_id]

\* create_profile without the business-rule validation
create_profile_NoRules(body, table, uuid) ==
    IF structural_errors(body) # <<>>
    THEN [status_code |-> 422, table |-> table, profile_id |-> "None"]
    ELSE IF save_profile(table, Get(body, "profile_id", uuid),
                         UserFinancialProfile(body)).raised
    THEN [status_code |-> 500, table |-> table, profile_id |-> "None"]
    ELSE [status_code |-> 200,
          table |-> save_profile(table, Get(body, "profile_id", uuid),
                                 UserFinancialProfile(body)).table,
          profile_id |-> Get(body, "profile_id", uuid)]

\* create_profile(profile, db); FastAPI parses the body into the profile first
create_profile(body, table, uuid) ==
    IF structural_errors(body) # <<>>
    THEN [status_code |-> 422, table |-> table, profile_id |-> "None"]
    ELSE validate_and_save(table, Get(body, "profile_id", uuid), UserFinancialProfile(body))

\* merged = {**base_fields, **body.edited_fields}; merged["input_method"] = "ocr"
merge_ocr(base_fields, edited_fields) ==
    [input_method |-> "ocr"] @@ edited_fields @@ base_fields

\* confirm_profile(body, request, db); raw is the session's redis value
confirm_profile(edited_fields, raw, table, uuid) ==
    IF raw = NoReturn
    THEN [status_code |-> 404, table |-> table, profile_id |-> "None"]
    ELSE IF structural_errors(merge_ocr(raw.profile_fields, edited_fields)) # <<>>
    THEN [status_code |-> 422, table |-> table, profile_id |-> "None"]
    ELSE validate_and_save(table,
                           Get(edited_fields, "profile_id", uuid),
                           UserFinancialProfile(merge_ocr(raw.profile_fields,
                                                          edited_fields)))

\* the end of _run_agentic_pipeline: the ValueError of a run that stopped, or the
\* profile compare_regimes is called on
pipeline_outcome(final_state) ==
    IF final_state.should_stop
    THEN [raised |-> TRUE, engine_profile |-> NoReturn]
    ELSE [raised |-> FALSE, engine_profile |-> final_state.profile]

\* tax_graph.ainvoke(initial_state) as far as the input stage; Mode A reads the
\* table in a session of its own
ainvoke(initial_state, table, db_ok) ==
    MergeState(initial_state,
               input_agent_node(initial_state,
                                IF ~db_ok THEN [found |-> FALSE, raises |-> TRUE]
                                ELSE IF initial_state.profile_id \in DOMAIN table
                                THEN [found |-> TRUE, raises |-> FALSE,
                                      profile |-> table[initial_state.profile_id]]
                                ELSE [found |-> FALSE, raises |-> FALSE],
                                [success |-> FALSE]))

\* _run_agentic_pipeline(request, profile, profile_id, use_profile_id) up to the
\* tax engine
run_agentic_pipeline(profile_obj, profile_id, use_profile_id, table, tax_graph, db_ok) ==
    IF tax_graph \in {"None", "raises"}
    THEN [raised |-> FALSE, engine_profile |-> profile_obj]
    ELSE pipeline_outcome(
             ainvoke([profile_id |-> IF use_profile_id THEN profile_id ELSE "",
                      raw_input |-> profile_obj, input_method |-> profile_obj.input_method,
                      file_path |-> "", input_errors |-> <<>>, errors |-> <<>>],
                     table, db_ok))

\* save_result(db, result) in one piece: the SELECT, then insert or update
save_result(rows, result) ==
    IF scalar_one_or_none(RowsOf(rows, result.profile_id)).raised
    THEN [raised |-> TRUE, rows |-> rows]
    ELSE save_result_flush(rows, scalar_one_or_none(RowsOf(rows, result.profile_id)).orm,
                           result)

\* the response of calculate_tax, with the tables as the request leaves them
calculate_response(status_code, table, rows, use_profile_id, profile_id, engine_profile, result) ==
    [status_code |-> status_code, table |-> table, rows |-> rows,
     use_profile_id |-> use_profile_id, profile_id |-> profile_id,
     engine_profile |-> engine_profile, result |-> result]

\* calculate_tax from save_result on
save_and_respond(result, engine_profile, use_profile_id, table, rows) ==
    IF save_result(rows, result).raised
    THEN calculate_response(500, table, rows, use_profile_id, "None", NoReturn, NoReturn)
    ELSE calculate_response(200, table, save_result(rows, result).rows, use_profile_id,
                            result.profile_id, engine_profile, result.data)

\* calculate_tax from the return of the pipeline on.  The result saved is the
\* engine's; the rationale text and the citations the graph adds to it are left out.
calculate_and_save(run, profile_id, use_profile_id, table, rows) ==
    IF run.raised
    THEN calculate_response(422, table, rows, use_profile_id, profile_id, NoReturn,
                            NoReturn)
    ELSE save_and_respond([profile_id |-> profile_id,
                           data |-> compare_regimes(run.engine_profile)],
                          run.engine_profile, use_profile_id, table, rows)

\* Shape A of calculate_tax once the body is parsed
calculate_inline(saved, profile_obj, table, rows, tax_graph, db_ok) ==
    IF saved.status_code # 200
    THEN calculate_response(saved.status_code, table, rows, FALSE, "None", NoReturn,
                            NoReturn)
    ELSE calculate_and_save(run_agentic_pipeline(profile_obj, saved.profile_id, FALSE,
                                                 saved.table, tax_graph, db_ok),
                            saved.profile_id, FALSE, saved.table, rows)

\* Shape B of calculate_tax
calculate_stored(profile_obj, profile_id, table, rows, tax_graph, db_ok) ==
    IF profile_obj = NoReturn
    THEN calculate_response(404, table, rows, TRUE, "None", NoReturn, NoReturn)
    ELSE calculate_and_save(run_agentic_pipeline(profile_obj, profile_id, TRUE, table,
                                                 tax_graph, db_ok),
                            profile_id, TRUE, table, rows)

\* calculate_tax(request, request_body, db)
calculate_tax(request_body, table, rows, uuid, tax_graph, db_ok) ==
    IF DOMAIN request_body = {"profile_id"}
    THEN calculate_stored(get_profile(table, request_body.profile_id),
                          request_body.profile_id, table, rows, tax_graph, db_ok)
    ELSE IF structural_errors(request_body) # <<>>
    THEN calculate_response(422, table, rows, FALSE, "None", NoReturn, NoReturn)
    ELSE calculate_inline(validate_and_save(table, Get(request_body, "profile_id", uuid),
                                            UserFinancialProfile(request_body)),
                          UserFinancialProfile(request_body), table, rows, tax_graph, db_ok)

\* get_db: what a handler's response leaves in the profiles table
ProfileRequestEnds(handler, response) ==
    /\ profiles_table' = response.table
    /\ call' = handler
    /\ ret' = [status_code |-> response.status_code, profile_id |-> response.profile_id]

\* get_db: what the response of calculate_tax leaves in both tables
CalculateRequestEnds(response) ==
    /\ profiles_table' = response.table
    /\ tax_results_table' = response.rows
    /\ last_saved' = IF response.status_code = 200
                     THEN (response.profile_id :> response.result) @@ last_saved
                     ELSE last_saved
    /\ call' = "calculate_tax"
    /\ ret' = [status_code |-> response.status_code, profile_id |-> response.profile_id,
               use_profile_id |-> response.use_profile_id,
               engine_profile |-> response.engine_profile]

InitProfiles ==
    /\ InitTaxIdle
    /\ InitSearchIdle
    /\ InitCiteIdle
    /\ InitPipeIdle
    /\ InitSemIdle
    /\ InitStoreIdle
    /\ InitQueryIdle

\* a body that leaves the profile_id to uuid4 is answered while uuid4 has a value
HasId(body, uuid) == "profile_id" \in DOMAIN body \/ uuid # NoUuid

\* POST /api/profile
CreateProfile ==
    /\ \E body \in ProfileBodies, uuid \in Uuid4(profiles_table) :
          /\ HasId(body, uuid)
          /\ ProfileRequestEnds("create_profile", create_profile(body, profiles_table, uuid))
    /\ UNCHANGED <<profile, searchVars, citeVars, pipeVars, semVars, queryVars,
                   tax_results_table, db_sessions, last_saved>>

\* PUT /api/profile/confirm
ConfirmProfile ==
    /\ \E edited_fields \in EditedFields, raw \in OcrSessions,
          uuid \in Uuid4(profiles_table) :
          /\ HasId(edited_fields, uuid)
          /\ ProfileRequestEnds("confirm_profile",
                                confirm_profile(edited_fields, raw, profiles_table, uuid))
    /\ UNCHANGED <<profile, searchVars, citeVars, pipeVars, semVars, queryVars,
                   tax_results_table, db_sessions, last_saved>>

\* POST /api/calculate
CalculateTax ==
    /\ \E request_body \in ProfileBodies \cup {[profile_id |-> id] : id \in ProfileIdPool},
          uuid \in Uuid4(profiles_table), tax_graph \in TaxGraphs :
          /\ HasId(request_body, uuid)
          /\ CalculateRequestEnds(calculate_tax(request_body, profiles_table,
                                                tax_results_table, uuid,
                                                tax_graph[1], tax_graph[2]))
    /\ UNCHANGED <<profile, searchVars, citeVars, pipeVars, semVars, queryVars, db_sessions>>

NextProfiles ==
    \/ CreateProfile
    \/ ConfirmProfile
    \/ CalculateTax

SpecProfiles == InitProfiles /\ [][NextProfiles]_vars

----------------------------------------------------------------------------
(* Properties of the tax engine *)

\* the RegimeResults a call returned
ReturnedOld ==
    IF call = "calculate_old_regime" THEN {ret}
    ELSE IF call = "compare_regimes" THEN {ret.old_regime} ELSE {}

ReturnedNew ==
    IF call = "calculate_new_regime" THEN {ret}
    ELSE IF call = "compare_regimes" THEN {ret.new_regime} ELSE {}

\* C1: compare_regimes recommends "old" exactly when the old regime's total_tax is
\* strictly less than the new regime's and "new" otherwise, a tie included;
\* savings_amount is |old total_tax - new total_tax| (0 on a tie); the recommended
\* regime's total_tax is the minimum of the two.
C1_LowerTaxWinsTieNew ==
    call = "compare_regimes" =>
        LET o == ret.old_regime.total_tax
            n == ret.new_regime.total_tax
        IN  /\ ret.old_regime = calculate_old_regime(profile)
            /\ ret.new_regime = calculate_new_regime(profile)
            /\ ret.recommended_regime = (IF o < n THEN "old" ELSE "new")
            /\ ret.savings_amount = Abs(o - n)
            /\ (o = n => ret.recommended_regime = "new" /\ ret.savings_amount = 0)
            /\ (IF ret.recommended_regime = "old" THEN o ELSE n) = Min(o, n)

\* C1 witness: an exact tie at a nonzero tax is not needed; the all-zero profile ties
C1_Witness ==
    /\ call = "compare_regimes"
    /\ ret.old_regime.total_tax = ret.new_regime.total_tax
    /\ ret.recommended_regime = "new"
    /\ ret.savings_amount = 0

\* C2: in every RegimeResult, cess = round(0.04 x tax_before_cess, 2) on the
\* reported post-rebate tax_before_cess, and total_tax = tax_before_cess + cess exactly.
C2_CessAndTotalFromReported ==
    \A r \in ReturnedOld \cup ReturnedNew :
        /\ r.cess = RoundHalfEven(4 * r.tax_before_cess, 100)
        /\ r.total_tax = r.tax_before_cess + r.cess
        /\ (r.tax_before_cess = 0 => r.cess = 0 /\ r.total_tax = 0)

\* C3: in both regimes taxable_income = max(0, gross_income - total_deductions),
\* never negative, also when the deductions exceed the gross income.
C3_TaxableIncomeFloored ==
    \A r \in ReturnedOld \cup ReturnedNew :
        /\ r.taxable_income >= 0
        /\ r.taxable_income =
              (IF r.gross_income > r.total_deductions
               THEN r.gross_income - r.total_deductions ELSE 0)

\* C3 witness: a result whose deductions exceed the gross income
C3_Witness ==
    /\ call = "calculate_old_regime"
    /\ ret.total_deductions > ret.gross_income
    /\ ret.taxable_income = 0

\* C4: Section 87A is a hard cliff: old regime, post-rebate tax 0 up to and
\* including a taxable income of 500,000 and the full slab tax above it; new
\* regime, 0 up to and including 1,200,000 and the full slab tax above it.
C4_RebateHardCliff ==
    /\ \A r \in ReturnedOld :
          r.tax_before_cess =
              (IF r.taxable_income <= Rs(500000) THEN 0
               ELSE Round2(_calculate_slab_tax(r.taxable_income, OLD_REGIME_SLABS)))
    /\ \A r \in ReturnedNew :
          r.tax_before_cess =
              (IF r.taxable_income <= Rs(1200000) THEN 0
               ELSE Round2(_calculate_slab_tax(r.taxable_income, NEW_REGIME_SLABS)))
    /\ \A r \in ReturnedOld : r.taxable_income = Rs(500001) => r.tax_before_cess = Rs(12500) + 20
    /\ \A r \in ReturnedNew : r.taxable_income = Rs(1200001) => r.tax_before_cess = Rs(60000) + 15

\* C4 witness: one rupee above the old ceiling, the full slab tax is due
C4_Witness ==
    /\ call = "calculate_old_regime"
    /\ ret.taxable_income = Rs(500001)
    /\ ret.tax_before_cess = Rs(12500) + 20

\* C5: the new-regime breakdown is zero except standard_deduction and
\* section_80ccd2, and only these two reduce the new-regime income; the old-regime
\* breakdown has section_80ccd2 = 0 and employer NPS does not reduce the old-regime income.
C5_UnpermittedSectionsZero ==
    /\ \A r \in ReturnedNew :
          LET bd == r.deduction_breakdown
          IN  /\ bd.hra_exemption = 0 /\ bd.section_80c = 0 /\ bd.section_80d = 0
              /\ bd.section_80ccd1b = 0 /\ bd.section_80tta_ttb = 0
              /\ bd.section_24b = 0 /\ bd.professional_tax = 0
              /\ r.total_deductions = bd.standard_deduction + bd.section_80ccd2
    /\ \A r \in ReturnedOld :
          LET bd == r.deduction_breakdown
          IN  /\ bd.section_80ccd2 = 0
              /\ r.total_deductions =
                    bd.standard_deduction + bd.hra_exemption + bd.section_80c
                    + bd.section_80d + bd.section_80ccd1b + bd.section_80tta_ttb
                    + bd.section_24b + bd.professional_tax

\* C5 witness: both regimes computed for a profile with every section claimed
C5_Witness ==
    /\ call = "compare_regimes"
    /\ profile.employer_nps_80ccd2 > 0 /\ profile.investments_80c > 0
    /\ profile.hra_received > 0 /\ profile.monthly_rent_paid > 0
    /\ profile.health_insurance_self > 0 /\ profile.employee_nps_80ccd1b > 0
    /\ profile.home_loan_interest > 0
    /\ ret.old_regime.deduction_breakdown.hra_exemption > 0

\* the profile with every capped input cut down to its cap
ClampedToCaps(p) ==
    LET senior == p.age_bracket # "under60"
    IN  [p EXCEPT
            !.investments_80c = Min(OrZero(@), Rs(150000)),
            !.employee_nps_80ccd1b = Min(OrZero(@), Rs(50000)),
            !.home_loan_interest = Min(OrZero(@), Rs(200000)),
            !.savings_interest_80tta =
                Min(OrZero(@), IF senior THEN Rs(50000) ELSE Rs(10000)),
            !.health_insurance_self =
                Min(OrZero(@), IF senior THEN Rs(50000) ELSE Rs(25000)),
            !.health_insurance_parents =
                Min(OrZero(@), IF p.parent_senior_citizen THEN Rs(50000) ELSE Rs(25000))]

\* C6: in calculate_old_regime every capped section is min(input or 0, cap), the
\* two 80D caps applied independently, and raising an input above its cap leaves
\* the old-regime result unchanged.
C6_CappedDeductions ==
    call = "calculate_old_regime" =>
        LET bd == ret.deduction_breakdown
            senior == profile.age_bracket # "under60"
        IN  /\ bd.section_80c = Min(OrZero(profile.investments_80c), Rs(150000))
            /\ bd.section_80ccd1b = Min(OrZero(profile.employee_nps_80ccd1b), Rs(50000))
            /\ bd.section_24b = Min(OrZero(profile.home_loan_interest), Rs(200000))
            /\ bd.section_80tta_ttb =
                  Min(OrZero(profile.savings_interest_80tta),
                      IF senior THEN Rs(50000) ELSE Rs(10000))
            /\ bd.section_80d =
                  Min(OrZero(profile.health_insurance_self),
                      IF senior THEN Rs(50000) ELSE Rs(25000))
                  + Min(OrZero(profile.health_insurance_parents),
                        IF profile.parent_senior_citizen THEN Rs(50000) ELSE Rs(25000))
            /\ ret = calculate_old_regime(ClampedToCaps(profile))

\* C6 witness: every capped input above its cap
C6_Witness ==
    /\ call = "calculate_old_regime"
    /\ profile.investments_80c > Rs(150000)
    /\ profile.employee_nps_80ccd1b > Rs(50000)
    /\ profile.home_loan_interest > Rs(200000)
    /\ profile.savings_interest_80tta > Rs(50000)
    /\ profile.health_insurance_self > Rs(50000)
    /\ profile.health_insurance_parents > Rs(50000)
    /\ ret.deduction_breakdown.section_80d = Rs(100000)

\* C7: calculate_hra_exemption is 0 when hra_received or monthly_rent_paid is 0,
\* else min(hra_received, 50%/40% of basic_salary, max(0, 12 x rent - 10% of
\* basic_salary)); it is never negative and never exceeds hra_received.
C7_HraMinOfThree ==
    call = "calculate_hra_exemption" =>
        LET hra == OrZero(profile.hra_received)
            rent == OrZero(profile.monthly_rent_paid)
            c2 == (profile.basic_salary * (IF profile.city_type = "metro" THEN 5 ELSE 4)) \div 10
            c3raw == 12 * rent - profile.basic_salary \div 10
            c3 == IF c3raw > 0 THEN c3raw ELSE 0
        IN  /\ ret = (IF hra = 0 \/ rent = 0 THEN 0 ELSE Min(hra, Min(c2, c3)))
            /\ ret >= 0
            /\ ret <= hra

\* C7 witness: rent below 10% of basic salary, component 3 floored at zero
C7_Witness ==
    /\ call = "calculate_hra_exemption"
    /\ OrZero(profile.hra_received) > 0
    /\ OrZero(profile.monthly_rent_paid) > 0
    /\ 12 * OrZero(profile.monthly_rent_paid) < profile.basic_salary \div 10
    /\ ret = 0

\* C8: the known-answer scenarios: A gives old 54,600, new 0, "new", savings
\* 54,600; B gives old 617,760, new 531,960, "new", savings 85,800.
C8_KnownAnswers ==
    call = "compare_regimes" =>
        /\ profile = ScenarioA =>
              /\ ret.old_regime.total_tax = Rs(54600)
              /\ ret.new_regime.total_tax = 0
              /\ ret.recommended_regime = "new"
              /\ ret.savings_amount = Rs(54600)
        /\ profile = ScenarioB =>
              /\ ret.old_regime.total_tax = Rs(617760)
              /\ ret.new_regime.total_tax = Rs(531960)
              /\ ret.recommended_regime = "new"
              /\ ret.savings_amount = Rs(85800)

\* C8 witness: scenario B compared
C8_Witness ==
    /\ call = "compare_regimes"
    /\ profile = ScenarioB
    /\ ret.old_regime.taxable_income = Rs(2605000)

----------------------------------------------------------------------------
(* Properties of the retriever *)

\* the chunk ids of a result list, in list order
IdsOf(results) == [i \in 1..Len(results) |-> chunks[results[i] + 1]]

\* the 1-indexed positions of chunk cid in a result list
PositionsIn(results, cid) == {i \in 1..Len(results) : IdsOf(results)[i] = cid}

\* C10: after hybrid_search the fused score of every distinct chunk_id is the sum,
\* over the dense and sparse lists in which it appears, of 1/(60 + r), r its
\* 1-indexed position there; a chunk in both lists scores strictly more than
\* it would from either list alone.
C10_FusedScoreIsSum ==
    call = "hybrid_search" =>
    LET dense_ids == {IdsOf(dense_results)[i] : i \in 1..Len(dense_results)}
        sparse_ids == {IdsOf(sparse_results)[i] : i \in 1..Len(sparse_results)}
    IN  /\ DOMAIN rrf_scores = dense_ids \cup sparse_ids
        /\ \A cid \in DOMAIN rrf_scores :
              LET num == rrf_scores[cid][1]
                  den == rrf_scores[cid][2]
                  pd == PositionsIn(dense_results, cid)
                  ps == PositionsIn(sparse_results, cid)
              IN  /\ den > 0
                  /\ Cardinality(pd) <= 1 /\ Cardinality(ps) <= 1
                  /\ pd # {} /\ ps = {} =>
                        \A r \in pd : num * (60 + r) = den
                  /\ pd = {} /\ ps # {} =>
                        \A r \in ps : num * (60 + r) = den
                  /\ pd # {} /\ ps # {} =>
                        \A rd \in pd, rs \in ps :
                            /\ num * (60 + rd) * (60 + rs) = den * ((60 + rd) + (60 + rs))
                            /\ num * (60 + rd) > den
                            /\ num * (60 + rs) > den

\* C10 witness: a search that found one chunk in both lists at different
\* positions, one in the dense list only and one in the sparse list only
C10_Witness ==
    /\ call = "hybrid_search"
    /\ \E cid \in DOMAIN rrf_scores :
          \E rd \in PositionsIn(dense_results, cid), rs \in PositionsIn(sparse_results, cid) :
              rd # rs
    /\ \E cid \in DOMAIN rrf_scores :
          PositionsIn(dense_results, cid) # {} /\ PositionsIn(sparse_results, cid) = {}
    /\ \E cid \in DOMAIN rrf_scores :
          PositionsIn(dense_results, cid) = {} /\ PositionsIn(sparse_results, cid) # {}

\* chunk c has a strictly higher fused score than chunk d
ScoresHigher(c, d) == rrf_scores[c][1] * rrf_scores[d][2] > rrf_scores[d][1] * rrf_scores[c][2]

\* chunks c and d have the same fused score
ScoresTie(c, d) == rrf_scores[c][1] * rrf_scores[d][2] = rrf_scores[d][1] * rrf_scores[c][2]

\* C11: hybrid_search returns the fused chunks by fused score descending, ties by
\* ascending chunk_id, cut to top_k: min(top_k, number of distinct fused chunk_ids)
\* entries, no chunk_id twice, no omitted chunk sorting before a returned one; the
\* order is total, so the same inputs give the same list.
C11_OrderedTopK ==
    call = "hybrid_search" =>
        LET ids == DOMAIN rrf_scores
            returned == {ret[i] : i \in 1..Len(ret)}
        IN  /\ Len(ret) = (IF top_k < Cardinality(ids) THEN top_k ELSE Cardinality(ids))
            /\ returned \subseteq ids
            /\ Cardinality(returned) = Len(ret)
            /\ \A i, j \in 1..Len(ret) :
                  i < j => \/ ScoresHigher(ret[i], ret[j])
                           \/ ScoresTie(ret[i], ret[j]) /\ ret[i] < ret[j]
            /\ \A c \in ids \ returned : \A i \in 1..Len(ret) :
                  \/ ScoresHigher(ret[i], c)
                  \/ ScoresTie(ret[i], c) /\ ret[i] < c
            /\ ret = hybrid_search(chunks, dense_results, sparse_results, top_k).result

\* C11 witness: a returned list cut at top_k, with two returned chunks tied on score
C11_Witness ==
    /\ call = "hybrid_search"
    /\ Len(ret) = top_k
    /\ Cardinality(DOMAIN rrf_scores) > top_k
    /\ \E i \in 1..(Len(ret) - 1) : ScoresTie(ret[i], ret[i + 1])

----------------------------------------------------------------------------
(* Properties of citation validation *)

\* the references that the citations of an answer text give
ExtractedRefs(ans) ==
    LET matches == CITATION_REGEX_findall(ans)
    IN  [i \in 1..Len(matches) |-> strip(matches[i])]

\* some text holds the reference, verbatim or with whitespace and periods removed
VerifiedBy(ref, texts) ==
    \E i \in 1..Len(texts) :
        \/ \E k \in 0..Len(texts[i]) : OccursAt(texts[i], ref, k)
        \/ LET loose_text == sub_space_period(texts[i])
               loose_ref == sub_space_period(ref)
           IN  \E k \in 0..Len(loose_text) : OccursAt(loose_text, loose_ref, k)

\* C12: validate_citations returns "high" exactly when at least one citation was
\* extracted and every extracted citation is verified by some chunk; otherwise it
\* returns "low", and with no citation extracted the list is empty too.
C12_HighIffAllVerified ==
    call = "validate_citations" =>
        /\ ret.confidence \in {"high", "low"}
        /\ ret.confidence = "high" <=>
              /\ Len(ExtractedRefs(answer)) >= 1
              /\ \A i \in 1..Len(ExtractedRefs(answer)) :
                    VerifiedBy(ExtractedRefs(answer)[i], kb_chunks)
        /\ Len(ExtractedRefs(answer)) = 0 => ret.citations = <<>> /\ ret.confidence = "low"

\* C12 witness: two citations extracted, one verified only by the loose match and
\* one verbatim, giving "high"
C12_Witness ==
    /\ call = "validate_citations"
    /\ ret.confidence = "high"
    /\ Len(ExtractedRefs(answer)) = 2
    /\ \E i \in 1..2 :
          \A c \in 1..Len(kb_chunks) : ~Contains(kb_chunks[c], ExtractedRefs(answer)[i])
    /\ \E i \in 1..2 :
          \E c \in 1..Len(kb_chunks) : Contains(kb_chunks[c], ExtractedRefs(answer)[i])

----------------------------------------------------------------------------
(* Properties of the pipeline *)

\* the nodes that ran in this run
Ran(n) == \E i \in 1..Len(executed) : executed[i].node = n

\* the matcher stage took the LLM's answer: its law context is that answer
MatcherAnswered ==
    /\ Ran("matcher_agent")
    /\ state.law_context # <<>>
    /\ state.law_context[1].kind = "answer"

\* the texts of a list of chunks
TextsOf(chs) == [i \in 1..Len(chs) |-> chs[i].text]

\* C13: a citation extracted from the answer that no retrieved chunk verifies is
\* kept with an empty excerpt: validate_citations, on the answer and the chunks the
\* matcher stage gave the LLM, has one entry per extracted citation, in order, the
\* unverified ones with an empty excerpt, and the citations the matcher stage
\* leaves in the state hold every unverified section with an empty excerpt, with
\* matcher_confidence "low".
C13_UnverifiedKept ==
    MatcherAnswered =>
        LET ans == state.law_context[1].text
            refs == ExtractedRefs(ans)
            given == TextsOf(Prefix(state.retrieved_chunks, 10))
            validated == validate_citations(ans, given)
            unverified == {i \in 1..Len(refs) :
                              ~VerifiedBy(refs[i], TextsOf(state.retrieved_chunks))}
        IN  /\ Len(validated.citations) = Len(refs)
            /\ \A i \in 1..Len(refs) :
                  /\ validated.citations[i].section = <<"Section ">> \o refs[i]
                  /\ ~VerifiedBy(refs[i], given) => validated.citations[i].excerpt = <<>>
            /\ \A i \in unverified :
                  /\ \E j \in 1..Len(state.citations) :
                        /\ state.citations[j].section = <<"Section ">> \o refs[i]
                        /\ state.citations[j].excerpt = <<>>
                  /\ state.matcher_confidence = "low"

\* the run had an LLM call that raised or timed out
LLMCallFailed == \E i \in 1..Len(executed) : executed[i].llm = "failed"

\* C17: a run in which an LLM call failed or timed out still answers with the
\* complete tax result, and that result has the engine's template rationale, an
\* empty citation list and confidence "low".
C17_FailureFallsBack ==
    node = "done" /\ LLMCallFailed =>
        /\ ret.status_code = 200
        /\ ret.tax_result.rationale = compare_regimes(state.profile).rationale
        /\ ret.tax_result.citations = <<>>
        /\ ret.citations = <<>>
        /\ ret.matcher_confidence = "low"

\* C18: with the retrieval index not loaded every retrieval request fails with a
\* signal of its own: rag_search_tool reports no success, and a run whose matcher
\* stage ran carries an error and is not answered as a normal result.
C18_UnavailableIsSignalled ==
    retriever = "None" =>
        /\ \A behaviour \in SearchBehaviours : ~rag_search_tool(retriever, behaviour[1]).success
        /\ Ran("matcher_agent") =>
              Get(state, "errors", <<>>) # <<>> \/ Get(state, "should_stop", FALSE)
        /\ node = "done" /\ Ran("matcher_agent") => ret.status_code # 200

\* C19: whatever the retrieval and the LLM did, the tax_result of a valid profile
\* has the old_regime, new_regime, recommended_regime, savings_amount and
\* suggestion lists of compare_regimes on that profile; the stages add the
\* citations and may replace the rationale, nothing else.
C19_NumbersFromEngine ==
    Ran("evaluator_agent") =>
        LET direct == compare_regimes(state.profile)
        IN  /\ state.tax_result # NoReturn
            /\ DOMAIN state.tax_result = DOMAIN direct \cup {"citations"}
            /\ \A f \in DOMAIN direct \ {"rationale"} : state.tax_result[f] = direct[f]
            /\ node = "done" => ret.status_code = 200 /\ ret.tax_result = state.tax_result

\* C19 witness: a run answered with an LLM rationale and citations, old regime
\* recommended
C19_Witness ==
    /\ node = "done"
    /\ Ran("evaluator_agent")
    /\ ret.tax_result.rationale.kind = "llm"
    /\ ret.tax_result.citations # <<>>
    /\ ret.tax_result.recommended_regime = "old"
    /\ ret.tax_result.savings_amount > 0

\* the input stage ran and produced no profile
InputFailed == Ran("input_agent") /\ "profile" \notin DOMAIN state

\* C20: when the input stage cannot produce a valid profile the run stops:
\* should_stop is True, input_errors is not empty, neither the matcher nor the
\* evaluator runs, and the run ends without a tax_result.
C20_StopsOnInvalidInput ==
    InputFailed =>
        /\ state.should_stop
        /\ state.input_errors # <<>>
        /\ ~Ran("matcher_agent")
        /\ ~Ran("evaluator_agent")
        /\ node \in {"error", "END", "done"}
        /\ Get(state, "tax_result", NoReturn) = NoReturn
        /\ node = "done" => ret.status_code = 422 /\ ret.details = state.input_errors

\* C20 witness: a run on a payload that breaks a business rule has ended
C20_Witness ==
    /\ InputFailed
    /\ node = "done"
    /\ state.input_errors = <<"investments_80c">>
    /\ Ran("error")

\* C13 witness: the answer cites a section the retrieved chunks hold and one
\* they do not hold; both are in the state's citations, the second without excerpt
C13_Witness ==
    /\ MatcherAnswered
    /\ Len(state.citations) = 2
    /\ state.citations[1].excerpt # <<>>
    /\ state.citations[2].excerpt = <<>>
    /\ ~VerifiedBy(ExtractedRefs(state.law_context[1].text)[2],
                   TextsOf(state.retrieved_chunks))
    /\ state.matcher_confidence = "low"

----------------------------------------------------------------------------
(* Properties of the LLM call sites *)

\* C14: at most 2 LLM calls are in flight at any moment, over all requests and
\* all three call sites; every call in flight holds one slot of the one
\* semaphore, so the free slots and the calls in flight add up to 2.
C14_AtMostTwoInFlight ==
    tasks # <<>> =>
        /\ Cardinality(InFlight) <= 2
        /\ sem_value >= 0
        /\ sem_value + Cardinality(InFlight) <= 2

\* C14 witness: two calls in flight from different call sites, a third caller kept out
C14_Witness ==
    /\ tasks # <<>>
    /\ Cardinality(InFlight) = 2
    /\ Cardinality({tasks[t].site : t \in InFlight}) = 2
    /\ sem_waiters # <<>>

\* C16: a call that took a slot gives it back when it ends, however it ends; no
\* slot is leaked: the free slots and the calls in flight always add up to 2, and
\* with no call in flight both slots are free.
C16_NoSlotLeaked ==
    tasks # <<>> =>
        /\ sem_value + Cardinality(InFlight) = 2
        /\ InFlight = {} => sem_value = 2

\* C16 witness: calls have ended by raising, by timing out and by cancellation,
\* none is in flight, and both slots are free
C16_Witness ==
    /\ tasks # <<>>
    /\ \A how \in {"raised", "timed_out", "cancelled"} :
          \E t \in Requests : tasks[t].ended = how
    /\ InFlight = {}
    /\ sem_value = 2

\* C15: a caller that finds both slots taken is suspended until one is released
\* and then makes its call: no caller ever falls back because no slot was free,
\* and, every call in flight ending, every waiting caller gets a slot (or
\* abandons its request while it waits).
C15_WaitersAreServed ==
    /\ [](\A t \in Requests : ~tasks[t].degraded)
    /\ \A t \in Requests :
          (tasks[t].phase \in {"waiting", "stuck"})
              ~> (tasks[t].phase = "in_flight" \/ tasks[t].ended = "cancelled_waiting")

----------------------------------------------------------------------------
(* Properties of the business-rule validation *)

\* the rules of validate_business_rules that the profile p violates, by field
ViolatedRules(p) ==
    LET senior == p.age_bracket \in {"60_79", "80plus"}
    IN  {f \in {"investments_80c"} : OrZero(p[f]) > Rs(150000)}
        \cup {f \in {"health_insurance_self"} :
                 OrZero(p[f]) > (IF senior THEN Rs(50000) ELSE Rs(25000))}
        \cup {f \in {"health_insurance_parents"} :
                 OrZero(p[f]) > (IF p.parent_senior_citizen THEN Rs(50000) ELSE Rs(25000))}
        \cup {f \in {"home_loan_interest"} : OrZero(p[f]) > Rs(200000)}
        \cup {f \in {"employee_nps_80ccd1b"} : OrZero(p[f]) > Rs(50000)}
        \cup {f \in {"employer_nps_80ccd2"} : 10 * OrZero(p[f]) > p.basic_salary}
        \cup {f \in {"other_income"} : OrZero(p[f]) > Rs(5000000)}

\* C21: validate_business_rules raises exactly when the profile violates at
\* least one of the seven rules, and the error then has one entry for every
\* violated rule and no other; a profile that violates none passes.
C21_AllViolationsReported ==
    call = "validate_business_rules" =>
        /\ ret.raised <=> ViolatedRules(profile) # {}
        /\ {ret.violations[i] : i \in 1..Len(ret.violations)} = ViolatedRules(profile)
        /\ Len(ret.violations) = Cardinality(ViolatedRules(profile))

\* C21 witness: a profile that violates all seven rules was rejected with
\* seven entries
C21_Witness ==
    /\ call = "validate_business_rules"
    /\ ret.raised
    /\ Len(ret.violations) = 7
    /\ profile.age_bracket = "60_79"
    /\ profile.parent_senior_citizen

----------------------------------------------------------------------------
(* Properties of the result store *)

\* C22: at most one tax result is stored per profile_id; a save for a
\* profile_id that already has a result replaces it, neither adding a second
\* row nor failing; after a save the row holds the saved result, and get_result
\* returns the most recently saved result of the profile_id, None if there is
\* none.
C22_OneResultPerProfile ==
    /\ \A profile_id \in ResultProfileIds :
          Cardinality(RowsOf(tax_results_table, profile_id)) <= 1
    /\ \A profile_id \in DOMAIN last_saved :
          \E i \in RowsOf(tax_results_table, profile_id) :
              tax_results_table[i].result_data = last_saved[profile_id]
    /\ call = "save_result" /\ ret.existed => ~ret.raised
    /\ call = "get_result" =>
          /\ ~ret.raised
          /\ ret.none <=> ret.profile_id \notin DOMAIN last_saved
          /\ ~ret.none => ret.result = last_saved[ret.profile_id]

\* C22 witness: a second save for a profile_id has replaced its result and
\* get_result has returned the new one, with one row for each profile_id
C22_Witness ==
    /\ call = "get_result"
    /\ ~ret.none
    /\ ret.profile_id = "p1"
    /\ ret.result = "r2"
    /\ Len(tax_results_table) = 2
    /\ tax_results_table[1] = [profile_id |-> "p1", result_data |-> "r2"]
    /\ \E t \in Sessions : db_sessions[t].phase = "selected" /\ db_sessions[t].orm = 1

----------------------------------------------------------------------------
(* Properties of the FAQ cache *)

\* the answer was generated with a profile or a tax result in its prompt
Personalised(fields) ==
    \/ fields.answer.profile_summary # NoReturn
    \/ fields.answer.tax_result_summary # NoReturn

----------------------------------------------------------------------------
(* Properties of the slab functions *)

\* the ceiling below bracket i
CeilingBelow(slabs, i) == IF i = 1 THEN 0 ELSE slabs[i - 1][1]

\* the portion of an income lying inside bracket i
PortionInBracket(taxable_income, slabs, i) ==
    Max(0, Min(taxable_income, slabs[i][1]) - CeilingBelow(slabs, i))

\* sum over the brackets 1..k of rate x portion, in twentieths of a paisa
RECURSIVE BracketSum(_, _, _)
BracketSum(taxable_income, slabs, k) ==
    IF k = 0 THEN 0
    ELSE BracketSum(taxable_income, slabs, k - 1)
         + slabs[k][2] * PortionInBracket(taxable_income, slabs, k)

\* the tax on the brackets 1..k, each taken whole
RECURSIVE WholeBrackets(_, _)
WholeBrackets(slabs, k) ==
    IF k = 0 THEN 0
    ELSE WholeBrackets(slabs, k - 1)
         + slabs[k][2] * (slabs[k][1] - CeilingBelow(slabs, k))

\* C24: for every non-negative taxable income and both bracket tables,
\* _calculate_slab_tax returns the sum over the brackets of rate x (portion of the
\* income inside the bracket); it returns 0 for income 0, and an income equal to a
\* ceiling is taxed at the lower brackets' rates only (old regime 1,000,000 gives
\* 112,500; new regime 1,200,000 gives 60,000).
C24_SlabTaxIsSumOverBrackets ==
    call = "_calculate_slab_tax" =>
        LET slabs == SlabsOf(ret.slabs)
        IN  /\ ret.tax = BracketSum(ret.taxable_income, slabs, Len(slabs))
            /\ ret.taxable_income = 0 => ret.tax = 0
            /\ \A k \in 1..(Len(slabs) - 1) :
                  ret.taxable_income = slabs[k][1] => ret.tax = WholeBrackets(slabs, k)
            /\ (ret.slabs = "old" /\ ret.taxable_income = Rs(1000000))
                  => ret.tax = 20 * Rs(112500)
            /\ (ret.slabs = "new" /\ ret.taxable_income = Rs(1200000))
                  => ret.tax = 20 * Rs(60000)

\* C24 witness: the old-regime tax on exactly 1,000,000 has been computed
C24_Witness ==
    /\ call = "_calculate_slab_tax"
    /\ ret.slabs = "old"
    /\ ret.taxable_income = Rs(1000000)
    /\ ret.tax = 20 * Rs(112500)

\* the bracket an income falls in, an income on a ceiling in the lower bracket
BracketOf(taxable_income, slabs) ==
    CHOOSE i \in 1..Len(slabs) :
        /\ taxable_income <= slabs[i][1]
        /\ \A k \in 1..(i - 1) : taxable_income > slabs[k][1]

\* 1.04 x a slab rate given in units of 5%, in RATE_UNITS: 1.04 x 5% = 13/250
WithCess(rate) == 13 * rate

\* C27: for every taxable income and each regime, the optimizer's marginal rate is
\* 1.04 x the rate of the bracket of the regime's slab table in which the income
\* falls, an income on a ceiling belonging to the lower bracket; this is 1.04 x the
\* rate _calculate_slab_tax applies to the last paisa of the income, and 0 in the
\* zero-rate bracket.
C27_MarginalRateMatchesSlabTable ==
    call \in {"_old_marginal_rate", "_new_marginal_rate"} =>
        LET slabs == SlabsOf(ret.slabs)
            bracket_rate == slabs[BracketOf(ret.taxable_income, slabs)][2]
        IN  /\ ret.rate = WithCess(bracket_rate)
            /\ ret.taxable_income >= 1 =>
                  ret.rate = WithCess(_calculate_slab_tax(ret.taxable_income, slabs)
                                      - _calculate_slab_tax(ret.taxable_income - 1, slabs))
            /\ bracket_rate = 0 => ret.rate = 0

\* C27 witness: the new-regime marginal rate of an income exactly on the 1,200,000
\* ceiling is that of the 10% bracket
C27_Witness ==
    /\ call = "_new_marginal_rate"
    /\ ret.taxable_income = Rs(1200000)
    /\ ret.rate = WithCess(2)

----------------------------------------------------------------------------
(* Properties of the rationale and the suggestions *)

\* the deductions an old-wins rationale can name, with their amounts in the
\* old-regime breakdown
RationaleDeductions(bd) ==
    [d \in {"HRA exemption", "80C", "80D", "Section 24(b)"} |->
        CASE d = "HRA exemption" -> bd.hra_exemption
          [] d = "80C" -> bd.section_80c
          [] d = "80D" -> bd.section_80d
          [] d = "Section 24(b)" -> bd.section_24b]

\* the deductions a rationale names
NamedDeductions(rationale) ==
    {rationale.top_deds[i][1] : i \in 1..Len(rationale.top_deds)}
    \cap {"HRA exemption", "80C", "80D", "Section 24(b)"}

\* C25: when the old regime wins, the rationale of compare_regimes names at most
\* three deductions, each nonzero in the old-regime breakdown, and no nonzero
\* deduction left unnamed is larger than a named one.
C25_RationaleNamesLargest ==
    (call = "compare_regimes" /\ ret.recommended_regime = "old") =>
        LET amount == RationaleDeductions(ret.old_regime.deduction_breakdown)
            named == NamedDeductions(ret.rationale)
        IN  /\ Cardinality(named) <= 3
            /\ \A d \in named : amount[d] > 0
            /\ \A u \in (DOMAIN amount) \ named, d \in named :
                  amount[u] > 0 => amount[u] <= amount[d]

\* the five optimizable sections of the old regime: cap minus the amount applied
OldHeadroom(p, old_result) ==
    LET bd == old_result.deduction_breakdown
        self_cap == IF p.age_bracket = "under60"
                    THEN CAP_80D_SELF_UNDER60 ELSE CAP_80D_SELF_SENIOR
        parent_cap == IF p.parent_senior_citizen
                      THEN CAP_80D_PARENTS_SENIOR ELSE CAP_80D_PARENTS_NON_SENIOR
    IN  [s \in {"80C", "80D self", "80D parents", "80CCD(1B)", "24(b)"} |->
            CASE s = "80C" -> CAP_80C - bd.section_80c
              [] s = "80D self" -> self_cap - Min(OrZero(p.health_insurance_self), self_cap)
              [] s = "80D parents" ->
                     parent_cap - Min(OrZero(p.health_insurance_parents), parent_cap)
              [] s = "80CCD(1B)" -> CAP_80CCD1B - bd.section_80ccd1b
              [] s = "24(b)" -> CAP_24B - bd.section_24b]

\* the sections of a suggestion list
SectionsOf(suggestions) == {suggestions[i].section : i \in 1..Len(suggestions)}

\* C26: generate_old_suggestions returns, in descending order of estimated saving,
\* the at most 3 largest candidates among the five optimizable sections whose
\* headroom is positive and whose estimated saving (headroom x marginal rate) is at
\* least 1,000; no returned suggestion has a saving below 1,000, and none is
\* returned when the old-regime taxable income lies in the zero-rate bracket.
C26_TopThreeQualifyingSuggestions ==
    call = "compare_regimes" =>
        LET taxable_income == ret.old_regime.taxable_income
            rate == _old_marginal_rate(taxable_income)
            headroom == OldHeadroom(profile, ret.old_regime)
            qualifying == {s \in DOMAIN headroom :
                              /\ headroom[s] > 0
                              /\ headroom[s] * rate >= _SUGGESTION_MIN_SAVING * RATE_UNITS}
            out == ret.old_regime_suggestions
        IN  /\ Len(out) = Min(3, Cardinality(qualifying))
            /\ Cardinality(SectionsOf(out)) = Len(out)
            /\ SectionsOf(out) \subseteq qualifying
            /\ \A i, j \in 1..Len(out) :
                  i < j => headroom[out[i].section] * rate >= headroom[out[j].section] * rate
            /\ \A u \in qualifying \ SectionsOf(out), s \in SectionsOf(out) :
                  headroom[u] * rate <= headroom[s] * rate
            /\ \A i \in 1..Len(out) : out[i].saving >= 1000
            /\ OLD_REGIME_SLABS[BracketOf(taxable_income, OLD_REGIME_SLABS)][2] = 0
                  => out = <<>>

\* C26 witness: four sections qualify, a fifth has a headroom worth less than
\* 1,000, and three suggestions are returned
C26_Witness ==
    /\ call = "compare_regimes"
    /\ Len(ret.old_regime_suggestions) = 3
    /\ LET rate == _old_marginal_rate(ret.old_regime.taxable_income)
           headroom == OldHeadroom(profile, ret.old_regime)
       IN  /\ \E s \in DOMAIN headroom :
                 /\ headroom[s] > 0
                 /\ headroom[s] * rate < _SUGGESTION_MIN_SAVING * RATE_UNITS
           /\ Cardinality({s \in DOMAIN headroom :
                              headroom[s] * rate >= _SUGGESTION_MIN_SAVING * RATE_UNITS}) = 4

\* C29: whenever a regime's total_tax is 0 for a profile, also when the Section 87A
\* rebate cancels a nonzero slab tax, the suggestion list generated for that regime
\* is empty.
C29_NoSuggestionWithoutTax ==
    call = "compare_regimes" =>
        /\ ret.old_regime.total_tax = 0 => ret.old_regime_suggestions = <<>>
        /\ ret.new_regime.total_tax = 0 => ret.new_regime_suggestions = <<>>

----------------------------------------------------------------------------
(* Properties of the graph *)

\* the nodes that ran in this run, in order
NodesRun == [i \in 1..Len(executed) |-> executed[i].node]

ErrorPath == <<"input_agent", "error">>
MatcherPath == <<"input_agent", "matcher_agent", "evaluator_agent">>

\* the run so far is the part of one of the two paths that leads to the node
\* running next
OnOnePath ==
    /\ node = "input_agent" => NodesRun = <<>>
    /\ node = "error" => NodesRun = <<"input_agent">> /\ Get(state, "should_stop", FALSE)
    /\ node = "matcher_agent" =>
          NodesRun = <<"input_agent">> /\ ~Get(state, "should_stop", FALSE)
    /\ node = "evaluator_agent" => NodesRun = <<"input_agent", "matcher_agent">>
    /\ node \in {"END", "done"} => NodesRun \in {ErrorPath, MatcherPath}
    /\ \A i, j \in 1..Len(executed) : i # j => executed[i].node # executed[j].node

----------------------------------------------------------------------------
(* Properties of the profile store *)

\* a profile satisfies the schema constraints and every business rule
SatisfiesSchemaAndRules(p) ==
    /\ structural_errors(p) = <<>>
    /\ ViolatedRules(p) = {}

\* every stored profile is valid, and so is the profile that the input stage loaded
\* in profile_id mode and handed to the tax engine
StoredProfilesAreValid ==
    /\ \A id \in DOMAIN profiles_table : SatisfiesSchemaAndRules(profiles_table[id])
    /\ (call = "calculate_tax" /\ ret.use_profile_id /\ ret.engine_profile # NoReturn)
          => /\ SatisfiesSchemaAndRules(ret.engine_profile)
             /\ ret.engine_profile = profiles_table[ret.profile_id]

\* a request that is not answered with 200 leaves the profiles table as it was
RejectedStoresNothing ==
    (call' \in {"create_profile", "confirm_profile", "calculate_tax"}
     /\ ret'.status_code # 200) => profiles_table' = profiles_table

====
